---- MODULE Spec2Model ----
(***************************************************************************)
(* Low-power listening wake / rendezvous protocol of zephyr-dwm1001.       *)
(*                                                                         *)
(*   waker    : example "LPLISTEN TX" (EX_08B), src/unnamed/part_004       *)
(*   listener : example "LPLISTEN RX" (EX_08A), src/unnamed/part_004       *)
(*   timed-sleep transmitter : "TX TIME SLP" (EX_01D), src/unnamed/part_006*)
(*                                                                         *)
(* Frames and C arrays are tuples of bytes; C index i is tuple index i+1.  *)
(*                                                                         *)
(* SpecWaker and SpecListener are untimed: the main loop, the interrupt    *)
(* handler and the radio take their steps in any order.  The interrupt     *)
(* handler runs to completion as one step and may run between any two      *)
(* statements of the main loop; each driver call of the main loop is one   *)
(* step.  SpecBoot follows the start-up of EX_08A and EX_01D statement by  *)
(* statement, with the uint32 and uint16 arithmetic of the sleep counter   *)
(* computed exactly.  SpecPair puts the waker and the listener on one      *)
(* clock, in microseconds.                                                 *)
(***************************************************************************)
EXTENDS Integers, Sequences, FiniteSets, TLC

(***************************************************************************)
(* Program constants                                                       *)
(***************************************************************************)
WUS_FRAME_NB == 1350
WUS_FRAME_LEN == 14
WUS_FRAME_TIME_US == 1130
INTERACTION_PERIOD_MAX_TIME_MS == 50
TX_DELAY_MS == 5000
RX_BUF_LEN == 127

\* RX_FINFO_RXFLEN_MASK: the 7-bit frame length field of the RX_FINFO register
RX_FINFO_RXFLEN_MASK == 127
DATA_FRAME_SEQ_NB_IDX == 2
DATA_FRAME_PAN_ID_IDX == 3
DATA_FRAME_DEST_ADDR_IDX == 5
DATA_FRAME_SRC_ADDR_IDX == 7
DATA_FRAME_APP_FCODE_IDX == 9
DATA_FRAME_WUS_CNTDWN_IDX == 10
\* bytes of the frames: 'X', 'R', 'T', PAN ID 0xDECA, function codes 0xE0 / 0xE1
CH_X == 88
CH_R == 82
CH_T == 84
PAN_LO == 202
PAN_HI == 222
FCODE_WUS == 224
FCODE_INTERACTION == 225
FC_LO == 65
FC_HI == 136

(***************************************************************************)
(* Bounds of the model                                                     *)
(***************************************************************************)
\* wake bursts the waker starts after its first one
MaxBursts == 2
\* wake frames for this node the listener's radio receives
MaxRendezvous == 2
\* frames the listener rejects at the interrupt stage
MaxDrops == 2

(***************************************************************************)
(* C integer types and array access                                        *)
(***************************************************************************)
U8(x) == x % 256
U16(x) == x % 65536

\* A uint32 is kept as <<high 16 bits, low 16 bits>> wherever it may pass 2^31.
\* The low and the high 16 bits of the product of two 16-bit values:
MulLo16(x, y) == (x * (y % 256) + ((x * (y \div 256)) % 256) * 256) % 65536

MulHi16(x, y) == ((x * (y % 256)) \div 256 + x * (y \div 256)) \div 256

\* a * b in uint32, that is modulo 2^32, for a, b below 2^31
umul32(a, b) ==
    LET a1 == a \div 65536
        a0 == a % 65536
        b1 == b \div 65536
        b0 == b % 65536
    IN  <<(MulHi16(a0, b0) + MulLo16(a1, b0) + MulLo16(a0, b1)) % 65536, MulLo16(a0, b0)>>

\* v / 1000 for a uint32 v
udiv1000(v) == (v[1] \div 1000) * 65536 + ((v[1] % 1000) * 65536 + v[2]) \div 1000

\* a[i] of a C array held as a tuple
At(a, i) == a[i + 1]
\* a[i] = v
Put(a, i, v) == [a EXCEPT ![i + 1] = v]

VARIABLES
    \* ---- waker (EX_08B) ----
    w_pc,            \* position of dw_main
    frame_counter,   \* uint16 frame_counter
    wus_msg,         \* static uint8 wus_msg[14]
    w_txbuf,         \* transmit buffer of the waker's radio
    w_status,        \* status register events of the waker's radio
    w_rxlen,         \* RX_FINFO frame length of the frame in the receive buffer
    w_rxbuf_len,     \* number of bytes last copied into rx_buffer[127]
    w_air,           \* the last frame the waker put on the air
    w_sent,          \* history: frames transmitted in the current burst
    w_burst,         \* history: bursts completed
    w_inflight,      \* transmissions started and not yet finished by the radio
    w_rxon,          \* the waker's receiver is on
    w_total,         \* history: frames transmitted since the start of the program
    w_confirmed,     \* history: TX frame sent events cleared in the current burst
    w_rxen,          \* history: dwt_rxenable() calls since the start of the burst
    w_outcome,       \* history: how the receive window of the current cycle ended
    w_delayed,       \* history: milliseconds of Sleep() since the start of the burst
    \* ---- listener (EX_08A) ----
    l_pc,                  \* position of dw_main
    rx_frame,              \* static int rx_frame
    rx_buffer,             \* static uint8 rx_buffer[WUS_FRAME_LEN]
    non_wus_frame_rx_nb,   \* static uint32 non_wus_frame_rx_nb
    interaction_msg,       \* static uint8 interaction_msg[12]
    wus_end_frame_nb,      \* uint16 wus_end_frame_nb
    wus_end_time_ms,       \* uint32 wus_end_time_ms
    sleep_time_ms,         \* uint32 sleep_time_ms
    l_radio,               \* state of the listener's radio
    l_lpl,                 \* low-power listening enabled in the radio
    l_slpcfg,              \* sleep configuration: <<mode flags, wake flags>>
    l_rxing,               \* frame whose reception is in progress
    l_hwrx,                \* frame in the radio's receive buffer
    l_status,              \* status register events of the listener's radio
    l_txbuf,               \* transmit buffer of the listener's radio
    l_air,                 \* the last frame the listener put on the air
    \* ---- listener, history ----
    h_cap,                 \* the frame whose acceptance last set rx_frame
    h_isr,                 \* the frame the last run of the interrupt handler was for
    h_cur,                 \* the frame the main loop is disposing of
    h_tx,                  \* start_tx calls of the current disposition
    h_slept,               \* milliseconds slept in the current disposition
    h_rx_me,               \* good wake frames for this node the radio received
    h_txcount,             \* interaction frames transmitted
    \* ---- start-up of the listener (EX_08A) and of the waker (EX_08B), the auto-sleep
    \* ---- transmitter (EX_01C) and the timed-sleep transmitter (EX_01D) ----
    b_prog,                \* the program that runs: "EX_08A", "EX_08B", "EX_01C" or "EX_01D"
    b_pc,                  \* position of dw_main
    b_spi,                 \* SPI rate: "slow" or "fast"
    b_chip,                \* the radio: "Asleep", "Awake" or "Tx"
    b_initialised,         \* dwt_initialise() has returned DWT_SUCCESS
    lp_osc_freq,           \* uint32 (EX_08A) or uint16 (EX_01D) lp_osc_freq
    sleep_cnt,             \* uint32 (EX_08A) or uint16 (EX_01D) sleep_cnt
    b_slpcnt,              \* the 16-bit sleep counter set in the radio
    b_slpcfg,              \* sleep configuration: <<mode flags, wake flags>>
    b_sleepaftertx,        \* the radio goes to sleep after a transmission
    tx_msg,                \* static uint8 tx_msg[12] of EX_01D
    \* ---- start-up, history ----
    b_calib,               \* what dwt_calibratesleepcnt() returned, 0 before the call
    b_calibrated,          \* calls of dwt_calibratesleepcnt(), with <<b_spi, b_chip>> each
    b_configured,          \* calls of dwt_configuresleepcnt(), with <<b_spi, b_chip>> each
    b_slept,               \* the radio has been put to sleep since it was initialised
    b_initerr,             \* dwt_initialise() has returned DWT_ERROR
    b_asleep_access,       \* a driver call has accessed the radio while it was asleep
    \* ---- waker and listener on the air, times in microseconds ----
    p_cfg,                 \* the radio configuration of the waker
    p_calib,               \* what dwt_calibratesleepcnt() returned in the listener
    p_now,                 \* the time of the last event
    p_w,                   \* the waker: "off", "burst", "rxwin" or "delay"
    p_wt,                  \* the time of the waker's next event
    p_T0,                  \* the time the current burst began
    p_wb,                  \* index of the current burst
    p_wdest,               \* wus_msg[DATA_FRAME_DEST_ADDR_IDX] of the current burst
    p_wout,                \* how the waker's reception ended: "none", "frame" or "timeout"
    p_rxen,                \* the time of the waker's last dwt_rxenable()
    p_l,                   \* the listener: "off", "DeepSleep", "Sniff1", "Snooze", "Sniff2",
                           \* "Rx", "CsSleep", "Waking" or "Tx"
    p_lt,                  \* the time of the listener's next event
    p_rx,                  \* index in its burst of the frame the listener is receiving
    p_hit,                 \* the reception phase, 1 or 2, that detected its preamble
    p_cap,                 \* the last frame the listener captured: burst, index, bytes, time
    p_ncap,                \* frames of the current burst the listener captured
    p_tx,                  \* <<start, end>> of the interaction frame sent in this cycle
    \* ---- the countdown field from the waker's frame counter to the listener's wait ----
    c_pc,                  \* "off", "stamped", "received", "decoded" or "timed"
    c_v,                   \* the value of frame_counter
    c_msg,                 \* wus_msg after the counter has been written
    c_rx,                  \* rx_buffer of the listener
    c_nb,                  \* wus_end_frame_nb
    c_ms,                  \* wus_end_time_ms
    \* ---- the SPI transport (deca_spi.c) ----
    s_pc,                  \* position in writetospi() / readfromspi(), "idle" or "fault"
    s_call,                \* the transaction in progress: op, headerLength, length, caller
    s_tx_end,              \* bytes from &tx_buf[0] on that have been written, at most
    s_rx_end,              \* bytes from &rx_buf[0] on that have been written, at most
    s_len,                 \* bufs[0].len and bufs[1].len
    s_calls,               \* transactions started
    \* ---- the transmitter with clear-channel assessment (ex_01e) ----
    e_pc,                  \* position in the loop of dw_main
    e_tx_msg,              \* tx_msg[] of ex_01e
    tx_sleep_period,       \* int tx_sleep_period
    next_backoff_interval, \* int next_backoff_interval
    channel_clear,         \* int channel_clear, -1 before the first assignment
    e_status_reg,          \* status_reg, the SYS_STATUS events last read
    e_status,              \* radio: the events latched in SYS_STATUS
    e_radio,               \* radio: "Idle", "Cca" (hunting preamble), "Rx", "Tx"
    e_txpend,              \* radio: a transmit start waits for the receiver
    e_txbuf,               \* radio: the transmit buffer
    e_air,                 \* sequence numbers of the frames sent, in order
    e_iter,                \* history: number of the iteration, from 1
    e_raised,              \* history: iteration in which each event was last raised
    e_fails,               \* history: consecutive iterations that backed off
    e_seq0,                \* history: sequence number at the start of the iteration
    e_sent0                \* history: frames sent before the iteration

w_vars == <<w_pc, frame_counter, wus_msg, w_txbuf, w_status, w_rxlen,
            w_rxbuf_len, w_air, w_sent, w_burst, w_inflight, w_rxon, w_total,
            w_confirmed, w_rxen, w_outcome, w_delayed>>

l_prog == <<l_pc, rx_frame, rx_buffer, non_wus_frame_rx_nb, interaction_msg,
            wus_end_frame_nb, wus_end_time_ms, sleep_time_ms>>

l_hw == <<l_radio, l_lpl, l_slpcfg, l_rxing, l_hwrx, l_status, l_txbuf, l_air>>

l_hist == <<h_cap, h_isr, h_cur, h_tx, h_slept, h_rx_me, h_txcount>>

l_vars == <<l_prog, l_hw, l_hist>>

b_vars == <<b_prog, b_pc, b_spi, b_chip, b_initialised, lp_osc_freq, sleep_cnt, b_slpcnt,
            b_slpcfg, b_sleepaftertx, tx_msg, b_calib, b_calibrated, b_configured, b_slept,
            b_initerr, b_asleep_access>>

\* the variables of the programs other than the waker and the listener
p_vars == <<p_cfg, p_calib, p_now, p_w, p_wt, p_T0, p_wb, p_wdest, p_wout, p_rxen,
            p_l, p_lt, p_rx, p_hit, p_cap, p_ncap, p_tx>>

c_vars == <<c_pc, c_v, c_msg, c_rx, c_nb, c_ms>>

s_vars == <<s_pc, s_call, s_tx_end, s_rx_end, s_len, s_calls>>

e_vars == <<e_pc, e_tx_msg, tx_sleep_period, next_backoff_interval, channel_clear,
            e_status_reg, e_status, e_radio, e_txpend, e_txbuf, e_air, e_iter, e_raised,
            e_fails, e_seq0, e_sent0>>

x_vars == <<b_vars, p_vars, c_vars, s_vars, e_vars>>

vars == <<w_vars, l_vars, x_vars>>

\* the variables a step of the start-up, of the pair on the air, of the
\* countdown field, of the SPI transport or of the transmitter with
\* clear-channel assessment leaves alone
xb_vars == <<w_vars, l_vars, p_vars, c_vars, s_vars, e_vars>>
xp_vars == <<w_vars, l_vars, b_vars, c_vars, s_vars, e_vars>>
xc_vars == <<w_vars, l_vars, b_vars, p_vars, s_vars, e_vars>>
xs_vars == <<w_vars, l_vars, b_vars, p_vars, c_vars, e_vars>>
xe_vars == <<w_vars, l_vars, b_vars, p_vars, c_vars, s_vars>>

(***************************************************************************)
(* Waker: EX_08B dw_main                                                   *)
(***************************************************************************)
wus_msg_init ==
    <<FC_LO, FC_HI, 0, PAN_LO, PAN_HI, CH_X, CH_R, CH_X, CH_T, FCODE_WUS, 0, 0, 0, 0>>

\* dwt_writetxdata(len, buf, 0) copies len - 2 bytes; the radio appends the
\* 2-byte check-sum (held as 0 here) when it sends the frame.
dwt_writetxdata(buf) ==
    [i \in 1..Len(buf) |-> IF i <= Len(buf) - 2 THEN buf[i] ELSE 0]

WInit ==
    /\ w_pc = "burst_init"
    /\ frame_counter = 0
    /\ wus_msg = wus_msg_init
    /\ w_txbuf = <<>>
    /\ w_status = {}
    /\ w_rxlen = 0
    /\ w_rxbuf_len = 0
    /\ w_air = <<>>
    /\ w_sent = 0
    /\ w_burst = 0
    /\ w_inflight = 0
    /\ w_rxon = FALSE
    /\ w_total = 0
    /\ w_confirmed = 0
    /\ w_rxen = 0
    /\ w_outcome = "none"
    /\ w_delayed = 0

\* uint16 frame_counter = WUS_FRAME_NB, with the sequence number set back to 0
WBurstInit_seq_reset ==
    /\ w_pc = "burst_init"
    /\ frame_counter' = U16(WUS_FRAME_NB)
    /\ wus_msg' = Put(wus_msg, DATA_FRAME_SEQ_NB_IDX, 0)
    /\ w_sent' = 0
    /\ w_confirmed' = 0
    /\ w_rxen' = 0
    /\ w_outcome' = "none"
    /\ w_delayed' = 0
    /\ w_pc' = "loop_test"
    /\ UNCHANGED <<w_txbuf, w_status, w_rxlen, w_rxbuf_len, w_air, w_burst, w_inflight, w_rxon,
                   w_total>>
    /\ UNCHANGED <<l_vars, x_vars>>

\* uint16 frame_counter = WUS_FRAME_NB;
WBurstInit ==
    /\ w_pc = "burst_init"
    /\ frame_counter' = U16(WUS_FRAME_NB)
    /\ w_sent' = 0
    /\ w_confirmed' = 0
    /\ w_rxen' = 0
    /\ w_outcome' = "none"
    /\ w_delayed' = 0
    /\ w_pc' = "loop_test"
    /\ UNCHANGED <<wus_msg, w_txbuf, w_status, w_rxlen, w_rxbuf_len, w_air, w_burst,
                   w_inflight, w_rxon, w_total>>
    /\ UNCHANGED <<l_vars, x_vars>>

\* mutant of WLoopTest: while (--frame_counter)
WLoopTest_predecrement ==
    /\ w_pc = "loop_test"
    /\ frame_counter' = U16(frame_counter + 65535)
    /\ w_pc' = IF U16(frame_counter + 65535) # 0 THEN "stamp" ELSE "rxenable"
    /\ UNCHANGED <<wus_msg, w_txbuf, w_status, w_rxlen, w_rxbuf_len, w_air, w_sent, w_burst,
                   w_inflight, w_rxon, w_total, w_confirmed, w_rxen, w_outcome, w_delayed>>
    /\ UNCHANGED <<l_vars, x_vars>>

\* while (frame_counter--)
WLoopTest ==
    /\ w_pc = "loop_test"
    /\ frame_counter' = U16(frame_counter + 65535)
    /\ w_pc' = IF frame_counter # 0 THEN "stamp" ELSE "rxenable"
    /\ UNCHANGED <<wus_msg, w_txbuf, w_status, w_rxlen, w_rxbuf_len, w_air, w_sent, w_burst,
                   w_inflight, w_rxon, w_total, w_confirmed, w_rxen, w_outcome, w_delayed>>
    /\ UNCHANGED <<l_vars, x_vars>>

\* wus_msg[10] = frame_counter & 0xFF;  wus_msg[11] = frame_counter >> 8;
WriteCountdown(msg, counter) ==
    Put(Put(msg, DATA_FRAME_WUS_CNTDWN_IDX, counter % 256),
        DATA_FRAME_WUS_CNTDWN_IDX + 1, U8(counter \div 256))

\* the frame counter is written into the frame
WStamp ==
    /\ w_pc = "stamp"
    /\ wus_msg' = WriteCountdown(wus_msg, frame_counter)
    /\ w_pc' = "write"
    /\ UNCHANGED <<frame_counter, w_txbuf, w_status, w_rxlen, w_rxbuf_len, w_air, w_sent,
                   w_burst, w_inflight, w_rxon, w_total, w_confirmed, w_rxen, w_outcome,
                   w_delayed>>
    /\ UNCHANGED <<l_vars, x_vars>>

\* dwt_writetxdata(sizeof(wus_msg), wus_msg, 0); dwt_writetxfctrl(sizeof(wus_msg), 0, 0);
WWrite ==
    /\ w_pc = "write"
    /\ w_txbuf' = dwt_writetxdata(wus_msg)
    /\ w_pc' = "starttx"
    /\ UNCHANGED <<frame_counter, wus_msg, w_status, w_rxlen, w_rxbuf_len, w_air, w_sent,
                   w_burst, w_inflight, w_rxon, w_total, w_confirmed, w_rxen, w_outcome,
                   w_delayed>>
    /\ UNCHANGED <<l_vars, x_vars>>

\* dwt_starttx(DWT_START_TX_IMMEDIATE): the frame in the transmit buffer goes on the air
WStartTx ==
    /\ w_pc = "starttx"
    /\ w_air' = w_txbuf
    /\ w_sent' = w_sent + 1
    /\ w_total' = w_total + 1
    /\ w_inflight' = w_inflight + 1
    /\ w_pc' = "txpoll"
    /\ UNCHANGED <<frame_counter, wus_msg, w_txbuf, w_status, w_rxlen, w_rxbuf_len, w_burst,
                   w_rxon, w_confirmed, w_rxen, w_outcome, w_delayed>>
    /\ UNCHANGED <<l_vars, x_vars>>

\* the radio finishes sending a frame and raises the TX frame sent event
WTxDone ==
    /\ w_inflight > 0
    /\ w_inflight' = w_inflight - 1
    /\ w_status' = w_status \cup {"TXFRS"}
    /\ UNCHANGED <<w_pc, frame_counter, wus_msg, w_txbuf, w_rxlen, w_rxbuf_len, w_air, w_sent,
                   w_burst, w_rxon, w_total, w_confirmed, w_rxen, w_outcome, w_delayed>>
    /\ UNCHANGED <<l_vars, x_vars>>

\* the poll for the TX frame sent event left out
WTxPoll_no_wait ==
    /\ w_pc = "txpoll"
    /\ w_pc' = "txclear"
    /\ UNCHANGED <<frame_counter, wus_msg, w_txbuf, w_status, w_rxlen, w_rxbuf_len, w_air,
                   w_sent, w_burst, w_inflight, w_rxon, w_total, w_confirmed, w_rxen,
                   w_outcome, w_delayed>>
    /\ UNCHANGED <<l_vars, x_vars>>

\* while (!(dwt_read32bitreg(SYS_STATUS_ID) & SYS_STATUS_TXFRS)) {};
WTxPoll ==
    /\ w_pc = "txpoll"
    /\ "TXFRS" \in w_status
    /\ w_pc' = "txclear"
    /\ UNCHANGED <<frame_counter, wus_msg, w_txbuf, w_status, w_rxlen, w_rxbuf_len, w_air,
                   w_sent, w_burst, w_inflight, w_rxon, w_total, w_confirmed, w_rxen,
                   w_outcome, w_delayed>>
    /\ UNCHANGED <<l_vars, x_vars>>

\* dwt_write32bitreg(SYS_STATUS_ID, SYS_STATUS_TXFRS);
WTxClear ==
    /\ w_pc = "txclear"
    /\ w_status' = w_status \ {"TXFRS"}
    /\ w_confirmed' = w_confirmed + 1
    /\ w_pc' = "seq"
    /\ UNCHANGED <<frame_counter, wus_msg, w_txbuf, w_rxlen, w_rxbuf_len, w_air, w_sent,
                   w_burst, w_inflight, w_rxon, w_total, w_rxen, w_outcome, w_delayed>>
    /\ UNCHANGED <<l_vars, x_vars>>

\* wus_msg[DATA_FRAME_SEQ_NB_IDX]++;
WSeq ==
    /\ w_pc = "seq"
    /\ wus_msg' = Put(wus_msg, DATA_FRAME_SEQ_NB_IDX, U8(At(wus_msg, DATA_FRAME_SEQ_NB_IDX) + 1))
    /\ w_pc' = "loop_test"
    /\ UNCHANGED <<frame_counter, w_txbuf, w_status, w_rxlen, w_rxbuf_len, w_air, w_sent,
                   w_burst, w_inflight, w_rxon, w_total, w_confirmed, w_rxen, w_outcome,
                   w_delayed>>
    /\ UNCHANGED <<l_vars, x_vars>>

\* dwt_rxenable(DWT_START_RX_IMMEDIATE);
WRxEnable ==
    /\ w_pc = "rxenable"
    /\ w_rxon' = TRUE
    /\ w_rxen' = w_rxen + 1
    /\ w_pc' = "rxpoll"
    /\ UNCHANGED <<frame_counter, wus_msg, w_txbuf, w_status, w_rxlen, w_rxbuf_len, w_air,
                   w_sent, w_burst, w_inflight, w_total, w_confirmed, w_outcome, w_delayed>>
    /\ UNCHANGED <<l_vars, x_vars>>

\* frame lengths the RX_FINFO register reports for the responses tried; with
\* DWT_PHRMODE_EXT in the configuration a frame may be longer than 127 bytes
WRespLens == {0, 12, RX_BUF_LEN, RX_BUF_LEN + 1}

\* frame_len = dwt_read32bitreg(RX_FINFO_ID) & RX_FINFO_RXFLEN_MASK;
ReadFrameLen(finfo) == finfo % (RX_FINFO_RXFLEN_MASK + 1)

\* the receive window ends: a good frame, the timeout set by dwt_setrxtimeout() or a
\* receive error; the receiver goes off
WRxEvent ==
    /\ w_rxon
    /\ w_rxon' = FALSE
    /\ \/ \E n \in WRespLens :
             w_status' = w_status \cup {"RXFCG"} /\ w_rxlen' = n /\ w_outcome' = "frame"
       \/ w_status' = w_status \cup {"RXTO"} /\ w_outcome' = "timeout" /\ UNCHANGED w_rxlen
       \/ w_status' = w_status \cup {"RXERR"} /\ w_outcome' = "error" /\ UNCHANGED w_rxlen
    /\ UNCHANGED <<w_pc, frame_counter, wus_msg, w_txbuf, w_rxbuf_len, w_air, w_sent, w_burst,
                   w_inflight, w_total, w_confirmed, w_rxen, w_delayed>>
    /\ UNCHANGED <<l_vars, x_vars>>

\* the poll of the receive window and the if / else after it, with the receiver
\* enabled again after a timeout or an error
WRxHandle_retry_on_timeout ==
    /\ w_pc = "rxpoll"
    /\ w_status \cap {"RXFCG", "RXTO", "RXERR"} # {}
    /\ IF "RXFCG" \in w_status
         THEN /\ w_status' = w_status \ {"RXFCG"}
              /\ w_rxbuf_len' = IF ReadFrameLen(w_rxlen) <= RX_BUF_LEN
                                   THEN ReadFrameLen(w_rxlen) ELSE w_rxbuf_len
              /\ w_pc' = "delay"
         ELSE /\ w_status' = w_status \ {"RXTO", "RXERR"}
              /\ w_pc' = "rxenable"
              /\ UNCHANGED w_rxbuf_len
    /\ UNCHANGED <<frame_counter, wus_msg, w_txbuf, w_rxlen, w_air, w_sent, w_burst,
                   w_inflight, w_rxon, w_total, w_confirmed, w_rxen, w_outcome, w_delayed>>
    /\ UNCHANGED <<l_vars, x_vars>>

\* the poll and the if / else after it, with the frame read only when it is
\* shorter than the buffer
WRxHandle_strict_length ==
    /\ w_pc = "rxpoll"
    /\ w_status \cap {"RXFCG", "RXTO", "RXERR"} # {}
    /\ IF "RXFCG" \in w_status
         THEN /\ w_status' = w_status \ {"RXFCG"}
              /\ w_rxbuf_len' = IF ReadFrameLen(w_rxlen) < RX_BUF_LEN
                                   THEN ReadFrameLen(w_rxlen) ELSE w_rxbuf_len
         ELSE /\ w_status' = w_status \ {"RXTO", "RXERR"}
              /\ UNCHANGED w_rxbuf_len
    /\ w_pc' = "delay"
    /\ UNCHANGED <<frame_counter, wus_msg, w_txbuf, w_rxlen, w_air, w_sent, w_burst,
                   w_inflight, w_rxon, w_total, w_confirmed, w_rxen, w_outcome, w_delayed>>
    /\ UNCHANGED <<l_vars, x_vars>>

\* while (!((status_reg = ...) & (RXFCG | ALL_RX_TO | ALL_RX_ERR))) {};  and the
\* if / else that follows: clear the event, read the frame when it fits
WRxHandle ==
    /\ w_pc = "rxpoll"
    /\ w_status \cap {"RXFCG", "RXTO", "RXERR"} # {}
    /\ IF "RXFCG" \in w_status
         THEN /\ w_status' = w_status \ {"RXFCG"}
              /\ w_rxbuf_len' = IF ReadFrameLen(w_rxlen) <= RX_BUF_LEN
                                   THEN ReadFrameLen(w_rxlen) ELSE w_rxbuf_len
         ELSE /\ w_status' = w_status \ {"RXTO", "RXERR"}
              /\ UNCHANGED w_rxbuf_len
    /\ w_pc' = "delay"
    /\ UNCHANGED <<frame_counter, wus_msg, w_txbuf, w_rxlen, w_air, w_sent, w_burst,
                   w_inflight, w_rxon, w_total, w_confirmed, w_rxen, w_outcome, w_delayed>>
    /\ UNCHANGED <<l_vars, x_vars>>

\* Sleep(TX_DELAY_MS);
WDelay ==
    /\ w_pc = "delay"
    /\ w_delayed' = w_delayed + TX_DELAY_MS
    /\ w_pc' = "toggle"
    /\ UNCHANGED <<frame_counter, wus_msg, w_txbuf, w_status, w_rxlen, w_rxbuf_len, w_air,
                   w_sent, w_burst, w_inflight, w_rxon, w_total, w_confirmed, w_rxen,
                   w_outcome>>
    /\ UNCHANGED <<l_vars, x_vars>>

\* the next burst starts with the destination address left as it is
WToggle_keeps_destination ==
    /\ w_pc = "toggle"
    /\ w_burst < MaxBursts
    /\ wus_msg' = wus_msg
    /\ w_burst' = w_burst + 1
    /\ w_pc' = "burst_init"
    /\ UNCHANGED <<frame_counter, w_txbuf, w_status, w_rxlen, w_rxbuf_len, w_air, w_sent,
                   w_inflight, w_rxon, w_total, w_confirmed, w_rxen, w_outcome, w_delayed>>
    /\ UNCHANGED <<l_vars, x_vars>>

\* if (wus_msg[5] == 'X') wus_msg[5] = 0; else wus_msg[5] = 'X';
WToggle ==
    /\ w_pc = "toggle"
    /\ w_burst < MaxBursts
    /\ wus_msg' = Put(wus_msg, DATA_FRAME_DEST_ADDR_IDX,
                      IF At(wus_msg, DATA_FRAME_DEST_ADDR_IDX) = CH_X THEN 0 ELSE CH_X)
    /\ w_burst' = w_burst + 1
    /\ w_pc' = "burst_init"
    /\ UNCHANGED <<frame_counter, w_txbuf, w_status, w_rxlen, w_rxbuf_len, w_air, w_sent,
                   w_inflight, w_rxon, w_total, w_confirmed, w_rxen, w_outcome, w_delayed>>
    /\ UNCHANGED <<l_vars, x_vars>>

WNext ==
    \/ WBurstInit \/ WLoopTest \/ WStamp \/ WWrite \/ WStartTx \/ WTxDone
    \/ WTxPoll \/ WTxClear \/ WSeq \/ WRxEnable \/ WRxEvent \/ WRxHandle
    \/ WDelay \/ WToggle

(***************************************************************************)
(* Listener: EX_08A                                                        *)
(***************************************************************************)
interaction_msg_init ==
    <<FC_LO, FC_HI, 0, PAN_LO, PAN_HI, CH_X, CH_T, CH_X, CH_R, FCODE_INTERACTION, 0, 0>>

\* dwt_configuresleep(DWT_PRESRV_SLEEP | DWT_CONFIG | DWT_RX_EN, DWT_WAKE_SLPCNT | DWT_SLP_EN)
SLEEP_CFG_LPL == <<{"PRESRV_SLEEP", "CONFIG", "RX_EN"}, {"WAKE_SLPCNT", "SLP_EN"}>>
\* dwt_configuresleep(DWT_PRESRV_SLEEP | DWT_CONFIG, DWT_WAKE_CS | DWT_SLP_EN)
SLEEP_CFG_CS == <<{"PRESRV_SLEEP", "CONFIG"}, {"WAKE_CS", "SLP_EN"}>>

\* dwt_entersleep(): the state the radio goes to under sleep configuration cfg
dwt_entersleep(cfg) ==
    IF "WAKE_SLPCNT" \in cfg[2] THEN "DeepSleep" ELSE "CsSleep"

\* dwt_readrxdata(buffer, length, 0): the first length bytes of the radio's receive buffer
dwt_readrxdata(hw, length) == SubSeq(hw, 1, length)

\* (rx_buffer[4] == 0xDE) && (rx_buffer[3] == 0xCA) && (rx_buffer[8] == 'T')
\*   && (rx_buffer[7] == 'X') && (rx_buffer[9] == 0xE0)
IsWusSignature(buf) ==
    /\ At(buf, DATA_FRAME_PAN_ID_IDX + 1) = PAN_HI
    /\ At(buf, DATA_FRAME_PAN_ID_IDX) = PAN_LO
    /\ At(buf, DATA_FRAME_SRC_ADDR_IDX + 1) = CH_T
    /\ At(buf, DATA_FRAME_SRC_ADDR_IDX) = CH_X
    /\ At(buf, DATA_FRAME_APP_FCODE_IDX) = FCODE_WUS

\* (rx_buffer[6] == 'R') && (rx_buffer[5] == 'X')
IsForMe(buf) ==
    /\ At(buf, DATA_FRAME_DEST_ADDR_IDX + 1) = CH_R
    /\ At(buf, DATA_FRAME_DEST_ADDR_IDX) = CH_X

\* wus_end_frame_nb = (rx_buffer[10] << 8) + rx_buffer[11]: the bytes exchanged
ReadCountdown_big_endian(buf) ==
    U16(At(buf, DATA_FRAME_WUS_CNTDWN_IDX) * 256 + At(buf, DATA_FRAME_WUS_CNTDWN_IDX + 1))

\* wus_end_frame_nb = (rx_buffer[11] << 8) + rx_buffer[10];
ReadCountdown(buf) ==
    U16(At(buf, DATA_FRAME_WUS_CNTDWN_IDX + 1) * 256 + At(buf, DATA_FRAME_WUS_CNTDWN_IDX))

\* wus_end_time_ms = (wus_end_frame_nb * WUS_FRAME_TIME_US) / 1000, with the product
\* reduced to 16 bits
EndTimeMs_16_bit_product(nb) == U16(nb * WUS_FRAME_TIME_US) \div 1000

\* wus_end_time_ms = (wus_end_frame_nb * WUS_FRAME_TIME_US) / 1000;
\* the product has 32 bits
EndTimeMs(nb) == udiv1000(umul32(nb, WUS_FRAME_TIME_US))

\* mutant of SleepTimeMs: the interaction period is left out
SleepTimeMs_no_interaction(end_ms) == end_ms

\* sleep_time_ms = wus_end_time_ms + INTERACTION_PERIOD_MAX_TIME_MS;
SleepTimeMs(end_ms) == end_ms + INTERACTION_PERIOD_MAX_TIME_MS

(***************************************************************************)
(* Frames the listener's radio may find on the air                         *)
(***************************************************************************)
\* a frame of len bytes laid out as an IEEE 802.15.4 data frame
MkFrame(len, pan, dest, src, fcode, cnt) ==
    [i \in 1..len |->
        CASE i = 1 -> FC_LO
          [] i = 2 -> FC_HI
          [] i = DATA_FRAME_PAN_ID_IDX + 1 -> pan[1]
          [] i = DATA_FRAME_PAN_ID_IDX + 2 -> pan[2]
          [] i = DATA_FRAME_DEST_ADDR_IDX + 1 -> dest[1]
          [] i = DATA_FRAME_DEST_ADDR_IDX + 2 -> dest[2]
          [] i = DATA_FRAME_SRC_ADDR_IDX + 1 -> src[1]
          [] i = DATA_FRAME_SRC_ADDR_IDX + 2 -> src[2]
          [] i = DATA_FRAME_APP_FCODE_IDX + 1 -> fcode
          [] i = DATA_FRAME_WUS_CNTDWN_IDX + 1 -> cnt % 256
          [] i = DATA_FRAME_WUS_CNTDWN_IDX + 2 -> cnt \div 256
          [] OTHER -> 0]

PAN_OK == <<PAN_LO, PAN_HI>>
ADDR_XR == <<CH_X, CH_R>>
ADDR_XT == <<CH_X, CH_T>>
ADDR_0R == <<0, CH_R>>

\* countdown values of the wake frames tried
Countdowns == {0, 42, WUS_FRAME_NB - 1}

WakeFramesForMe ==
    {MkFrame(WUS_FRAME_LEN, PAN_OK, ADDR_XR, ADDR_XT, FCODE_WUS, c) : c \in Countdowns}
WakeFramesForOther ==
    {MkFrame(WUS_FRAME_LEN, PAN_OK, ADDR_0R, ADDR_XT, FCODE_WUS, c) : c \in Countdowns}
\* frames of the wake-frame length that fail the signature check
BadSignatureFrames ==
    { MkFrame(WUS_FRAME_LEN, <<PAN_LO, 0>>, ADDR_XR, ADDR_XT, FCODE_WUS, 42),
      MkFrame(WUS_FRAME_LEN, PAN_OK, ADDR_XR, ADDR_XR, FCODE_WUS, 42),
      MkFrame(WUS_FRAME_LEN, PAN_OK, ADDR_XR, ADDR_XT, FCODE_INTERACTION, 42) }
\* frames of another length: another node's interaction frame, and frames that
\* carry the wake signature and this node's address
WrongLengthFrames ==
    { MkFrame(Len(interaction_msg_init), PAN_OK, ADDR_XT, ADDR_XR, FCODE_INTERACTION, 0),
      MkFrame(WUS_FRAME_LEN + 1, PAN_OK, ADDR_XR, ADDR_XT, FCODE_WUS, 42),
      MkFrame(RX_BUF_LEN, PAN_OK, ADDR_XR, ADDR_XT, FCODE_WUS, 42) }

AirFrames ==
    WakeFramesForMe \cup WakeFramesForOther \cup BadSignatureFrames \cup WrongLengthFrames

\* what the interrupt stage makes of a received frame
IsWakeFrame(f) == Len(f) = WUS_FRAME_LEN /\ IsWusSignature(f)

LInit ==
    /\ l_pc = "wait"
    /\ rx_frame = 0
    /\ rx_buffer = [i \in 1..WUS_FRAME_LEN |-> 0]
    /\ non_wus_frame_rx_nb = 0
    /\ interaction_msg = interaction_msg_init
    /\ wus_end_frame_nb = 0
    /\ wus_end_time_ms = 0
    /\ sleep_time_ms = 0
    /\ l_radio = dwt_entersleep(SLEEP_CFG_LPL)
    /\ l_lpl = TRUE
    /\ l_slpcfg = SLEEP_CFG_LPL
    /\ l_rxing = <<>>
    /\ l_hwrx = <<>>
    /\ l_status = {}
    /\ l_txbuf = <<>>
    /\ l_air = <<>>
    /\ h_cap = <<>>
    /\ h_isr = <<>>
    /\ h_cur = <<>>
    /\ h_tx = 0
    /\ h_slept = 0
    /\ h_rx_me = 0
    /\ h_txcount = 0

(***************************************************************************)
(* Listener's radio in low-power listening: SLEEP, RX ON, SNOOZE, RX ON    *)
(***************************************************************************)

\* the sleep counter expires: the radio wakes, with the receiver on when the
\* sleep configuration holds DWT_RX_EN
RSleepCounter ==
    /\ l_radio = "DeepSleep"
    /\ l_radio' = IF "RX_EN" \in l_slpcfg[1] THEN "Sniff1" ELSE "Idle"
    /\ UNCHANGED <<l_pc, rx_frame, rx_buffer, non_wus_frame_rx_nb, interaction_msg,
                   wus_end_frame_nb, wus_end_time_ms, sleep_time_ms, l_lpl, l_slpcfg, l_rxing,
                   l_hwrx, l_status, l_txbuf, l_air, h_cap, h_isr, h_cur, h_tx, h_slept,
                   h_rx_me, h_txcount>>
    /\ UNCHANGED <<w_vars, x_vars>>

\* first RX ON phase: no preamble, and the radio goes to the long sleep at once
RSniff1Timeout_skips_second_phase ==
    /\ l_radio = "Sniff1"
    /\ l_radio' = IF l_lpl THEN "DeepSleep" ELSE "Idle"
    /\ UNCHANGED <<l_pc, rx_frame, rx_buffer, non_wus_frame_rx_nb, interaction_msg,
                   wus_end_frame_nb, wus_end_time_ms, sleep_time_ms, l_lpl, l_slpcfg, l_rxing,
                   l_hwrx, l_status, l_txbuf, l_air, h_cap, h_isr, h_cur, h_tx, h_slept,
                   h_rx_me, h_txcount>>
    /\ UNCHANGED <<w_vars, x_vars>>

\* first RX ON phase: no preamble within the preamble detect timeout
RSniff1Timeout ==
    /\ l_radio = "Sniff1"
    /\ l_radio' = IF l_lpl THEN "Snooze" ELSE "Idle"
    /\ UNCHANGED <<l_pc, rx_frame, rx_buffer, non_wus_frame_rx_nb, interaction_msg,
                   wus_end_frame_nb, wus_end_time_ms, sleep_time_ms, l_lpl, l_slpcfg, l_rxing,
                   l_hwrx, l_status, l_txbuf, l_air, h_cap, h_isr, h_cur, h_tx, h_slept,
                   h_rx_me, h_txcount>>
    /\ UNCHANGED <<w_vars, x_vars>>

\* the snooze ("short sleep") time ends
RSnoozeEnd ==
    /\ l_radio = "Snooze"
    /\ l_radio' = "Sniff2"
    /\ UNCHANGED <<l_pc, rx_frame, rx_buffer, non_wus_frame_rx_nb, interaction_msg,
                   wus_end_frame_nb, wus_end_time_ms, sleep_time_ms, l_lpl, l_slpcfg, l_rxing,
                   l_hwrx, l_status, l_txbuf, l_air, h_cap, h_isr, h_cur, h_tx, h_slept,
                   h_rx_me, h_txcount>>
    /\ UNCHANGED <<w_vars, x_vars>>

\* second RX ON phase: no preamble, back to the "long sleep"
RSniff2Timeout ==
    /\ l_radio = "Sniff2"
    /\ l_radio' = IF l_lpl THEN "DeepSleep" ELSE "Idle"
    /\ UNCHANGED <<l_pc, rx_frame, rx_buffer, non_wus_frame_rx_nb, interaction_msg,
                   wus_end_frame_nb, wus_end_time_ms, sleep_time_ms, l_lpl, l_slpcfg, l_rxing,
                   l_hwrx, l_status, l_txbuf, l_air, h_cap, h_isr, h_cur, h_tx, h_slept,
                   h_rx_me, h_txcount>>
    /\ UNCHANGED <<w_vars, x_vars>>

\* the frames the model still lets arrive: the counters of the history and
\* the diagnostic counter are capped
Admissible(f) ==
    /\ (IsWakeFrame(f) /\ IsForMe(f)) => h_rx_me < MaxRendezvous
    /\ ~IsWakeFrame(f) => non_wus_frame_rx_nb < MaxDrops

\* a preamble is detected in an RX ON phase: the frame is received normally
RPreambleHit ==
    /\ l_radio \in {"Sniff1", "Sniff2"}
    /\ \E f \in AirFrames :
          /\ Admissible(f)
          /\ l_rxing' = f
    /\ l_radio' = "Rx"
    /\ UNCHANGED <<l_pc, rx_frame, rx_buffer, non_wus_frame_rx_nb, interaction_msg,
                   wus_end_frame_nb, wus_end_time_ms, sleep_time_ms, l_lpl, l_slpcfg, l_hwrx,
                   l_status, l_txbuf, l_air, h_cap, h_isr, h_cur, h_tx, h_slept, h_rx_me,
                   h_txcount>>
    /\ UNCHANGED <<w_vars, x_vars>>

\* the frame is received with a good check-sum: RX good frame event, the only
\* interrupt enabled (dwt_setinterrupt(DWT_INT_RFCG, 1))
RRxGood ==
    /\ l_radio = "Rx"
    /\ l_hwrx' = l_rxing
    /\ l_status' = l_status \cup {"RXFCG"}
    /\ l_radio' = "Idle"
    /\ h_rx_me' = IF IsWakeFrame(l_rxing) /\ IsForMe(l_rxing) THEN h_rx_me + 1 ELSE h_rx_me
    /\ UNCHANGED <<l_pc, rx_frame, rx_buffer, non_wus_frame_rx_nb, interaction_msg,
                   wus_end_frame_nb, wus_end_time_ms, sleep_time_ms, l_lpl, l_slpcfg, l_rxing,
                   l_txbuf, l_air, h_cap, h_isr, h_cur, h_tx, h_slept, h_txcount>>
    /\ UNCHANGED <<w_vars, x_vars>>

\* the reception ends in an error or a timeout, and the radio stays awake as it
\* does for an event whose interrupt is enabled
RRxError_stays_awake ==
    /\ l_radio = "Rx"
    /\ l_radio' = "Idle"
    /\ UNCHANGED <<l_pc, rx_frame, rx_buffer, non_wus_frame_rx_nb, interaction_msg,
                   wus_end_frame_nb, wus_end_time_ms, sleep_time_ms, l_lpl, l_slpcfg, l_rxing,
                   l_hwrx, l_status, l_txbuf, l_air, h_cap, h_isr, h_cur, h_tx, h_slept,
                   h_rx_me, h_txcount>>
    /\ UNCHANGED <<w_vars, x_vars>>

\* the reception ends in an error or a timeout: no interrupt is enabled for it,
\* low-power listening goes on
RRxError ==
    /\ l_radio = "Rx"
    /\ l_radio' = IF l_lpl THEN "DeepSleep" ELSE "Idle"
    /\ UNCHANGED <<l_pc, rx_frame, rx_buffer, non_wus_frame_rx_nb, interaction_msg,
                   wus_end_frame_nb, wus_end_time_ms, sleep_time_ms, l_lpl, l_slpcfg, l_rxing,
                   l_hwrx, l_status, l_txbuf, l_air, h_cap, h_isr, h_cur, h_tx, h_slept,
                   h_rx_me, h_txcount>>
    /\ UNCHANGED <<w_vars, x_vars>>

\* the radio finishes sending the frame and raises the TX frame sent event
RTxDone ==
    /\ l_radio = "Tx"
    /\ l_radio' = "Idle"
    /\ l_status' = l_status \cup {"TXFRS"}
    /\ UNCHANGED <<l_pc, rx_frame, rx_buffer, non_wus_frame_rx_nb, interaction_msg,
                   wus_end_frame_nb, wus_end_time_ms, sleep_time_ms, l_lpl, l_slpcfg, l_rxing,
                   l_hwrx, l_txbuf, l_air, h_cap, h_isr, h_cur, h_tx, h_slept, h_rx_me,
                   h_txcount>>
    /\ UNCHANGED <<w_vars, x_vars>>

(***************************************************************************)
(* Listener: interrupt handler                                             *)
(***************************************************************************)
\* mutant of rx_ok_cb: low-power listening is resumed whether or not the
\* frame was accepted (the test of rx_frame is left out)
rx_ok_cb_always_resume(datalength) ==
    LET copied == datalength = WUS_FRAME_LEN
        buf == IF copied THEN dwt_readrxdata(l_hwrx, datalength) ELSE rx_buffer
        accepted == copied /\ IsWusSignature(buf)
    IN  /\ rx_buffer' = buf
        /\ rx_frame' = IF accepted THEN 1 ELSE rx_frame
        /\ h_cap' = IF accepted THEN l_hwrx ELSE h_cap
        /\ l_lpl' = TRUE
        /\ l_radio' = dwt_entersleep(l_slpcfg)
        /\ non_wus_frame_rx_nb' = non_wus_frame_rx_nb + 1

\* mutant of rx_ok_cb: the length test is >= instead of ==
rx_ok_cb_min_length(datalength) ==
    LET copied == datalength >= WUS_FRAME_LEN
        buf == IF copied THEN dwt_readrxdata(l_hwrx, WUS_FRAME_LEN) ELSE rx_buffer
        accepted == copied /\ IsWusSignature(buf)
        flag == IF accepted THEN 1 ELSE rx_frame
    IN  /\ rx_buffer' = buf
        /\ rx_frame' = flag
        /\ h_cap' = IF accepted THEN l_hwrx ELSE h_cap
        /\ IF flag = 0
             THEN /\ l_lpl' = TRUE
                  /\ l_radio' = dwt_entersleep(l_slpcfg)
                  /\ non_wus_frame_rx_nb' = non_wus_frame_rx_nb + 1
             ELSE /\ l_lpl' = FALSE
                  /\ UNCHANGED <<l_radio, non_wus_frame_rx_nb>>

\* static void rx_ok_cb(const dwt_cb_data_t *cb_data), called by the driver's
\* handler, which has switched low-power listening off before the call
rx_ok_cb(datalength) ==
    LET copied == datalength = WUS_FRAME_LEN
        buf == IF copied THEN dwt_readrxdata(l_hwrx, datalength) ELSE rx_buffer
        accepted == copied /\ IsWusSignature(buf)
        flag == IF accepted THEN 1 ELSE rx_frame
    IN  /\ rx_buffer' = buf
        /\ rx_frame' = flag
        /\ h_cap' = IF accepted THEN l_hwrx ELSE h_cap
        /\ IF flag = 0
             THEN /\ l_lpl' = TRUE
                  /\ l_radio' = dwt_entersleep(l_slpcfg)
                  /\ non_wus_frame_rx_nb' = non_wus_frame_rx_nb + 1
             ELSE /\ l_lpl' = FALSE
                  /\ UNCHANGED <<l_radio, non_wus_frame_rx_nb>>

\* the radio's interrupt line: the driver's low-power listening handler clears
\* the event, reads the frame length and calls the registered RX callback
\* (port_set_deca_isr(dwt_lowpowerlistenisr) and dwt_setcallbacks(NULL, &rx_ok_cb, ...)
\* in dw_main; port_set_deca_isr of src/platform/port.c is an empty stub, the
\* handler is taken as installed)
dwt_lowpowerlistenisr ==
    /\ "RXFCG" \in l_status
    /\ l_status' = l_status \ {"RXFCG"}
    /\ h_isr' = l_hwrx
    /\ rx_ok_cb(Len(l_hwrx))
    /\ UNCHANGED <<l_pc, interaction_msg, wus_end_frame_nb, wus_end_time_ms, sleep_time_ms,
                   l_slpcfg, l_rxing, l_hwrx, l_txbuf, l_air, h_cur, h_tx, h_slept, h_rx_me,
                   h_txcount>>
    /\ UNCHANGED <<w_vars, x_vars>>

(***************************************************************************)
(* Listener: EX_08A dw_main, the loop                                      *)
(***************************************************************************)

\* while (!rx_frame) {};
LWait ==
    /\ l_pc = "wait"
    /\ rx_frame # 0
    /\ l_pc' = "cfg_cs"
    /\ h_cur' = h_cap
    /\ h_tx' = 0
    /\ h_slept' = 0
    /\ UNCHANGED <<rx_frame, rx_buffer, non_wus_frame_rx_nb, interaction_msg, wus_end_frame_nb,
                   wus_end_time_ms, sleep_time_ms, l_radio, l_lpl, l_slpcfg, l_rxing, l_hwrx,
                   l_status, l_txbuf, l_air, h_cap, h_isr, h_rx_me, h_txcount>>
    /\ UNCHANGED <<w_vars, x_vars>>

\* mutant of LCfgCs: the sleep mode is not reconfigured for the chip-select wake-up
LCfgCs_not_reconfigured ==
    /\ l_pc = "cfg_cs"
    /\ l_slpcfg' = l_slpcfg
    /\ l_pc' = "decode"
    /\ UNCHANGED <<rx_frame, rx_buffer, non_wus_frame_rx_nb, interaction_msg, wus_end_frame_nb,
                   wus_end_time_ms, sleep_time_ms, l_radio, l_lpl, l_rxing, l_hwrx, l_status,
                   l_txbuf, l_air, h_cap, h_isr, h_cur, h_tx, h_slept, h_rx_me, h_txcount>>
    /\ UNCHANGED <<w_vars, x_vars>>

\* dwt_configuresleep(DWT_PRESRV_SLEEP | DWT_CONFIG, DWT_WAKE_CS | DWT_SLP_EN);
LCfgCs ==
    /\ l_pc = "cfg_cs"
    /\ l_slpcfg' = SLEEP_CFG_CS
    /\ l_pc' = "decode"
    /\ UNCHANGED <<rx_frame, rx_buffer, non_wus_frame_rx_nb, interaction_msg, wus_end_frame_nb,
                   wus_end_time_ms, sleep_time_ms, l_radio, l_lpl, l_rxing, l_hwrx, l_status,
                   l_txbuf, l_air, h_cap, h_isr, h_cur, h_tx, h_slept, h_rx_me, h_txcount>>
    /\ UNCHANGED <<w_vars, x_vars>>

\* wus_end_frame_nb = (rx_buffer[11] << 8) + rx_buffer[10];
\* wus_end_time_ms = (wus_end_frame_nb * WUS_FRAME_TIME_US) / 1000;
LDecode ==
    /\ l_pc = "decode"
    /\ wus_end_frame_nb' = ReadCountdown(rx_buffer)
    /\ wus_end_time_ms' = EndTimeMs(ReadCountdown(rx_buffer))
    /\ l_pc' = "check"
    /\ UNCHANGED <<rx_frame, rx_buffer, non_wus_frame_rx_nb, interaction_msg, sleep_time_ms,
                   l_radio, l_lpl, l_slpcfg, l_rxing, l_hwrx, l_status, l_txbuf, l_air, h_cap,
                   h_isr, h_cur, h_tx, h_slept, h_rx_me, h_txcount>>
    /\ UNCHANGED <<w_vars, x_vars>>

\* if ((rx_buffer[6] == 'R') && (rx_buffer[5] == 'X'))
LCheck ==
    /\ l_pc = "check"
    /\ l_pc' = IF IsForMe(rx_buffer) THEN "a_sleep" ELSE "n_time"
    /\ UNCHANGED <<rx_frame, rx_buffer, non_wus_frame_rx_nb, interaction_msg, wus_end_frame_nb,
                   wus_end_time_ms, sleep_time_ms, l_radio, l_lpl, l_slpcfg, l_rxing, l_hwrx,
                   l_status, l_txbuf, l_air, h_cap, h_isr, h_cur, h_tx, h_slept, h_rx_me,
                   h_txcount>>
    /\ UNCHANGED <<w_vars, x_vars>>

\* addressed to this node: dwt_entersleep();
LASleep ==
    /\ l_pc = "a_sleep"
    /\ l_radio' = dwt_entersleep(l_slpcfg)
    /\ l_pc' = "a_delay"
    /\ UNCHANGED <<rx_frame, rx_buffer, non_wus_frame_rx_nb, interaction_msg, wus_end_frame_nb,
                   wus_end_time_ms, sleep_time_ms, l_lpl, l_slpcfg, l_rxing, l_hwrx, l_status,
                   l_txbuf, l_air, h_cap, h_isr, h_cur, h_tx, h_slept, h_rx_me, h_txcount>>
    /\ UNCHANGED <<w_vars, x_vars>>

\* Sleep(wus_end_time_ms);
LADelay ==
    /\ l_pc = "a_delay"
    /\ h_slept' = h_slept + wus_end_time_ms
    /\ l_pc' = "a_wake"
    /\ UNCHANGED <<rx_frame, rx_buffer, non_wus_frame_rx_nb, interaction_msg, wus_end_frame_nb,
                   wus_end_time_ms, sleep_time_ms, l_radio, l_lpl, l_slpcfg, l_rxing, l_hwrx,
                   l_status, l_txbuf, l_air, h_cap, h_isr, h_cur, h_tx, h_rx_me, h_txcount>>
    /\ UNCHANGED <<w_vars, x_vars>>

\* dwt_spicswakeup(dummy_buffer, DUMMY_BUFFER_LEN);
LAWake ==
    /\ l_pc = "a_wake"
    /\ l_radio' = "Idle"
    /\ l_pc' = "a_write"
    /\ UNCHANGED <<rx_frame, rx_buffer, non_wus_frame_rx_nb, interaction_msg, wus_end_frame_nb,
                   wus_end_time_ms, sleep_time_ms, l_lpl, l_slpcfg, l_rxing, l_hwrx, l_status,
                   l_txbuf, l_air, h_cap, h_isr, h_cur, h_tx, h_slept, h_rx_me, h_txcount>>
    /\ UNCHANGED <<w_vars, x_vars>>

\* dwt_writetxdata(sizeof(interaction_msg), interaction_msg, 0); dwt_writetxfctrl(...);
LAWrite ==
    /\ l_pc = "a_write"
    /\ l_txbuf' = dwt_writetxdata(interaction_msg)
    /\ l_pc' = "a_tx"
    /\ UNCHANGED <<rx_frame, rx_buffer, non_wus_frame_rx_nb, interaction_msg, wus_end_frame_nb,
                   wus_end_time_ms, sleep_time_ms, l_radio, l_lpl, l_slpcfg, l_rxing, l_hwrx,
                   l_status, l_air, h_cap, h_isr, h_cur, h_tx, h_slept, h_rx_me, h_txcount>>
    /\ UNCHANGED <<w_vars, x_vars>>

\* dwt_starttx(DWT_START_TX_IMMEDIATE);
LATx ==
    /\ l_pc = "a_tx"
    /\ l_radio' = IF l_radio = "Idle" THEN "Tx" ELSE l_radio
    /\ l_air' = IF l_radio = "Idle" THEN l_txbuf ELSE l_air
    /\ h_tx' = h_tx + 1
    /\ h_txcount' = h_txcount + 1
    /\ l_pc' = "a_poll"
    /\ UNCHANGED <<rx_frame, rx_buffer, non_wus_frame_rx_nb, interaction_msg, wus_end_frame_nb,
                   wus_end_time_ms, sleep_time_ms, l_lpl, l_slpcfg, l_rxing, l_hwrx, l_status,
                   l_txbuf, h_cap, h_isr, h_cur, h_slept, h_rx_me>>
    /\ UNCHANGED <<w_vars, x_vars>>

\* while (!(dwt_read32bitreg(SYS_STATUS_ID) & SYS_STATUS_TXFRS)) {};
LAPoll ==
    /\ l_pc = "a_poll"
    /\ "TXFRS" \in l_status
    /\ l_pc' = "a_clear"
    /\ UNCHANGED <<rx_frame, rx_buffer, non_wus_frame_rx_nb, interaction_msg, wus_end_frame_nb,
                   wus_end_time_ms, sleep_time_ms, l_radio, l_lpl, l_slpcfg, l_rxing, l_hwrx,
                   l_status, l_txbuf, l_air, h_cap, h_isr, h_cur, h_tx, h_slept, h_rx_me,
                   h_txcount>>
    /\ UNCHANGED <<w_vars, x_vars>>

\* dwt_write32bitreg(SYS_STATUS_ID, SYS_STATUS_TXFRS);
LAClear ==
    /\ l_pc = "a_clear"
    /\ l_status' = l_status \ {"TXFRS"}
    /\ l_pc' = "a_seq"
    /\ UNCHANGED <<rx_frame, rx_buffer, non_wus_frame_rx_nb, interaction_msg, wus_end_frame_nb,
                   wus_end_time_ms, sleep_time_ms, l_radio, l_lpl, l_slpcfg, l_rxing, l_hwrx,
                   l_txbuf, l_air, h_cap, h_isr, h_cur, h_tx, h_slept, h_rx_me, h_txcount>>
    /\ UNCHANGED <<w_vars, x_vars>>

\* interaction_msg[DATA_FRAME_SEQ_NB_IDX]++;
LASeq ==
    /\ l_pc = "a_seq"
    /\ interaction_msg' = Put(interaction_msg, DATA_FRAME_SEQ_NB_IDX,
                              U8(At(interaction_msg, DATA_FRAME_SEQ_NB_IDX) + 1))
    /\ l_pc' = "r_cfg"
    /\ UNCHANGED <<rx_frame, rx_buffer, non_wus_frame_rx_nb, wus_end_frame_nb, wus_end_time_ms,
                   sleep_time_ms, l_radio, l_lpl, l_slpcfg, l_rxing, l_hwrx, l_status, l_txbuf,
                   l_air, h_cap, h_isr, h_cur, h_tx, h_slept, h_rx_me, h_txcount>>
    /\ UNCHANGED <<w_vars, x_vars>>

\* addressed to another node:
\* uint32 sleep_time_ms = wus_end_time_ms + INTERACTION_PERIOD_MAX_TIME_MS;
LNTime ==
    /\ l_pc = "n_time"
    /\ sleep_time_ms' = SleepTimeMs(wus_end_time_ms)
    /\ l_pc' = "n_sleep"
    /\ UNCHANGED <<rx_frame, rx_buffer, non_wus_frame_rx_nb, interaction_msg, wus_end_frame_nb,
                   wus_end_time_ms, l_radio, l_lpl, l_slpcfg, l_rxing, l_hwrx, l_status,
                   l_txbuf, l_air, h_cap, h_isr, h_cur, h_tx, h_slept, h_rx_me, h_txcount>>
    /\ UNCHANGED <<w_vars, x_vars>>

\* dwt_entersleep();
LNSleep ==
    /\ l_pc = "n_sleep"
    /\ l_radio' = dwt_entersleep(l_slpcfg)
    /\ l_pc' = "n_delay"
    /\ UNCHANGED <<rx_frame, rx_buffer, non_wus_frame_rx_nb, interaction_msg, wus_end_frame_nb,
                   wus_end_time_ms, sleep_time_ms, l_lpl, l_slpcfg, l_rxing, l_hwrx, l_status,
                   l_txbuf, l_air, h_cap, h_isr, h_cur, h_tx, h_slept, h_rx_me, h_txcount>>
    /\ UNCHANGED <<w_vars, x_vars>>

\* Sleep(sleep_time_ms);
LNDelay ==
    /\ l_pc = "n_delay"
    /\ h_slept' = h_slept + sleep_time_ms
    /\ l_pc' = "n_wake"
    /\ UNCHANGED <<rx_frame, rx_buffer, non_wus_frame_rx_nb, interaction_msg, wus_end_frame_nb,
                   wus_end_time_ms, sleep_time_ms, l_radio, l_lpl, l_slpcfg, l_rxing, l_hwrx,
                   l_status, l_txbuf, l_air, h_cap, h_isr, h_cur, h_tx, h_rx_me, h_txcount>>
    /\ UNCHANGED <<w_vars, x_vars>>

\* dwt_spicswakeup(dummy_buffer, DUMMY_BUFFER_LEN);
LNWake ==
    /\ l_pc = "n_wake"
    /\ l_radio' = "Idle"
    /\ l_pc' = "r_cfg"
    /\ UNCHANGED <<rx_frame, rx_buffer, non_wus_frame_rx_nb, interaction_msg, wus_end_frame_nb,
                   wus_end_time_ms, sleep_time_ms, l_lpl, l_slpcfg, l_rxing, l_hwrx, l_status,
                   l_txbuf, l_air, h_cap, h_isr, h_cur, h_tx, h_slept, h_rx_me, h_txcount>>
    /\ UNCHANGED <<w_vars, x_vars>>

\* dwt_configuresleep(DWT_PRESRV_SLEEP | DWT_CONFIG | DWT_RX_EN, DWT_WAKE_SLPCNT | DWT_SLP_EN);
LRCfg ==
    /\ l_pc = "r_cfg"
    /\ l_slpcfg' = SLEEP_CFG_LPL
    /\ l_pc' = "r_lpl"
    /\ UNCHANGED <<rx_frame, rx_buffer, non_wus_frame_rx_nb, interaction_msg, wus_end_frame_nb,
                   wus_end_time_ms, sleep_time_ms, l_radio, l_lpl, l_rxing, l_hwrx, l_status,
                   l_txbuf, l_air, h_cap, h_isr, h_cur, h_tx, h_slept, h_rx_me, h_txcount>>
    /\ UNCHANGED <<w_vars, x_vars>>

\* dwt_setlowpowerlistening(1);
LRLpl ==
    /\ l_pc = "r_lpl"
    /\ l_lpl' = TRUE
    /\ l_pc' = "r_sleep"
    /\ UNCHANGED <<rx_frame, rx_buffer, non_wus_frame_rx_nb, interaction_msg, wus_end_frame_nb,
                   wus_end_time_ms, sleep_time_ms, l_radio, l_slpcfg, l_rxing, l_hwrx,
                   l_status, l_txbuf, l_air, h_cap, h_isr, h_cur, h_tx, h_slept, h_rx_me,
                   h_txcount>>
    /\ UNCHANGED <<w_vars, x_vars>>

\* dwt_entersleep();
LRSleep ==
    /\ l_pc = "r_sleep"
    /\ l_radio' = dwt_entersleep(l_slpcfg)
    /\ l_pc' = "r_clear"
    /\ UNCHANGED <<rx_frame, rx_buffer, non_wus_frame_rx_nb, interaction_msg, wus_end_frame_nb,
                   wus_end_time_ms, sleep_time_ms, l_lpl, l_slpcfg, l_rxing, l_hwrx, l_status,
                   l_txbuf, l_air, h_cap, h_isr, h_cur, h_tx, h_slept, h_rx_me, h_txcount>>
    /\ UNCHANGED <<w_vars, x_vars>>

\* rx_frame = 0;
LRClear ==
    /\ l_pc = "r_clear"
    /\ rx_frame' = 0
    /\ l_pc' = "wait"
    /\ h_cur' = <<>>
    /\ h_tx' = 0
    /\ h_slept' = 0
    /\ UNCHANGED <<rx_buffer, non_wus_frame_rx_nb, interaction_msg, wus_end_frame_nb,
                   wus_end_time_ms, sleep_time_ms, l_radio, l_lpl, l_slpcfg, l_rxing, l_hwrx,
                   l_status, l_txbuf, l_air, h_cap, h_isr, h_rx_me, h_txcount>>
    /\ UNCHANGED <<w_vars, x_vars>>

LNext ==
    \/ RSleepCounter \/ RSniff1Timeout \/ RSnoozeEnd \/ RSniff2Timeout
    \/ RPreambleHit \/ RRxGood \/ RRxError \/ RTxDone
    \/ dwt_lowpowerlistenisr
    \/ LWait \/ LCfgCs \/ LDecode \/ LCheck
    \/ LASleep \/ LADelay \/ LAWake \/ LAWrite \/ LATx \/ LAPoll \/ LAClear \/ LASeq
    \/ LNTime \/ LNSleep \/ LNDelay \/ LNWake
    \/ LRCfg \/ LRLpl \/ LRSleep \/ LRClear

(***************************************************************************)
(* Sleep counter: EX_08A and EX_01D ("TX TIME SLP", src/unnamed/part_006)  *)
(***************************************************************************)
XTAL_FREQ_HZ == 38400000
LONG_SLEEP_TIME_MS == 1500
LPL_RX_SNIFF_TIME == 2
LPL_SHORT_SLEEP_SNOOZE_TIME == 4
\* TX_DELAY_MS and SLEEP_TIME_MS of EX_01D
TX_DELAY_MS_01D == 1000
SLEEP_TIME_MS == TX_DELAY_MS_01D - 10
BLINK_FRAME_SN_IDX == 1
CH_D == 68
CH_E == 69
CH_C == 67
CH_A == 65
CH_W == 87
CH_V == 86
BLINK_FC == 197

tx_msg_init == <<BLINK_FC, 0, CH_D, CH_E, CH_C, CH_A, CH_W, CH_A, CH_V, CH_E, 0, 0>>

\* EX_08A: ((LONG_SLEEP_TIME_MS * lp_osc_freq) / 1000) >> 12, rounded up instead
compute_ticks_u32_round_up(wanted_ms, osc_freq) ==
    (udiv1000(umul32(wanted_ms, osc_freq)) + 4095) \div 4096

\* EX_08A: ((LONG_SLEEP_TIME_MS * lp_osc_freq) / 1000) >> 12 with uint32 lp_osc_freq:
\* the product is a uint32
compute_ticks_u32(wanted_ms, osc_freq) ==
    udiv1000(umul32(wanted_ms, osc_freq)) \div 4096

\* EX_01D: the sleep count rounded up instead
compute_ticks_u16_round_up(wanted_ms, osc_freq) ==
    U16((((wanted_ms * osc_freq) \div 1000) + 4095) \div 4096)

\* EX_01D: ((SLEEP_TIME_MS * lp_osc_freq) / 1000) >> 12 with uint16 lp_osc_freq and
\* sleep_cnt: the product is an int, defined below 2^31, the result is cut to
\* 16 bits
compute_ticks_u16(wanted_ms, osc_freq) ==
    U16(((wanted_ms * osc_freq) \div 1000) \div 4096)

\* what dwt_calibratesleepcnt() may return: cycles of XTAL / 2 in one cycle of the
\* low-power oscillator, for oscillators of 6 kHz to 16 kHz
CalibCounts == {1200, 1477, 1600, 1757, 1758, 1920, 2400, 2743, 3200}

\* DWT_PAC16 of the listener's config: a PAC is 16 symbols of about 1 us
PAC16_SYMBOLS == 16

\* an RX ON phase, in microseconds: the IC adds 1 PAC to LPL_RX_SNIFF_TIME
SniffUs == (LPL_RX_SNIFF_TIME + 1) * PAC16_SYMBOLS

\* a snooze, in microseconds, rounded up: the IC adds 1 to
\* LPL_SHORT_SLEEP_SNOOZE_TIME, in units of 512 / 19.2 us
SnoozeUs == ((LPL_SHORT_SLEEP_SNOOZE_TIME + 1) * 5120 + 191) \div 192

\* the long sleep the radio makes of a sleep count, in microseconds, rounded
\* up: cnt * 4096 cycles of the low-power oscillator, one cycle of which is
\* calib cycles of XTAL_FREQ_HZ / 2 = 19.2 MHz
LongSleepUs(cnt, calib) == (cnt * 4096 * calib * 10 + 191) \div 192

SLEEP_CFG_01D == <<{"PRESRV_SLEEP", "CONFIG"}, {"WAKE_SLPCNT", "WAKE_CS", "SLP_EN"}>>

\* dwt_configuresleep(DWT_PRESRV_SLEEP | DWT_CONFIG, DWT_WAKE_CS | DWT_SLP_EN) of EX_01C
SLEEP_CFG_01C == <<{"PRESRV_SLEEP", "CONFIG"}, {"WAKE_CS", "SLP_EN"}>>

Programs == {"EX_08A", "EX_08B", "EX_01C", "EX_01D"}

\* the statements of dw_main in the order of the program, calibration moved
\* behind the switch to the fast rate
BOrder_calibrate_at_fast_rate(prog) ==
    CASE prog = "EX_08A" ->
                  <<"reset", "slow1", "init", "fast1", "lna", "configure", "leds", "slow2",
                    "fast2", "calib", "cnt", "cfgcnt", "cfgsleep", "snooze", "pdt", "callbacks",
                    "interrupt", "lpl", "entersleep", "loop">>
      [] prog = "EX_08B" ->
                  <<"reset", "slow1", "init", "fast1", "configure", "rxtimeout", "leds", "loop">>
      [] prog = "EX_01C" ->
                  <<"cswake", "reset", "slow1", "init", "fast1", "configure", "leds",
                    "cfgsleep", "sleepaftertx", "write", "starttx", "delay", "cswake2", "seq">>
      [] OTHER -> <<"cswake", "reset", "slow1", "init", "fast2", "calib", "cnt", "cfgcnt",
                    "configure", "cfgsleep", "sleepaftertx", "leds", "write", "starttx", "delay",
                    "seq">>

\* the statements of dw_main in the order of the program
BOrder(prog) ==
    CASE prog = "EX_08A" ->
                  <<"reset", "slow1", "init", "fast1", "lna", "configure", "leds", "slow2",
                    "calib", "cnt", "cfgcnt", "fast2", "cfgsleep", "snooze", "pdt", "callbacks",
                    "interrupt", "lpl", "entersleep", "loop">>
      [] prog = "EX_08B" ->
                  <<"reset", "slow1", "init", "fast1", "configure", "rxtimeout", "leds", "loop">>
      [] prog = "EX_01C" ->
                  <<"cswake", "reset", "slow1", "init", "fast1", "configure", "leds",
                    "cfgsleep", "sleepaftertx", "write", "starttx", "delay", "cswake2", "seq">>
      [] OTHER -> <<"cswake", "reset", "slow1", "init", "calib", "cnt", "cfgcnt", "fast2",
                    "configure", "cfgsleep", "sleepaftertx", "leds", "write", "starttx", "delay",
                    "seq">>

\* the statement after pc
BAfter(prog, pc) ==
    LET order == BOrder(prog)
        i == CHOOSE k \in 1..Len(order) : order[k] = pc
    IN  order[i + 1]

BInit ==
    /\ b_prog = "off"
    /\ b_pc = "off"
    /\ b_spi = "slow"
    /\ b_chip = "Awake"
    /\ b_initialised = FALSE
    /\ lp_osc_freq = 0
    /\ sleep_cnt = 0
    /\ b_slpcnt = 0
    /\ b_slpcfg = <<{}, {}>>
    /\ b_sleepaftertx = FALSE
    /\ tx_msg = tx_msg_init
    /\ b_calib = 0
    /\ b_calibrated = <<>>
    /\ b_configured = <<>>
    /\ b_slept = FALSE
    /\ b_initerr = FALSE
    /\ b_asleep_access = FALSE

\* a node is switched on and runs one of the programs up to openspi(), which
\* sets the SPI rate to 256 kHz; the radio may have been left asleep
BPowerOn ==
    /\ b_pc = "off"
    /\ \E prog \in Programs, chip \in {"Awake", "Asleep"} :
          /\ b_prog' = prog
          /\ b_chip' = chip
          /\ b_pc' = BOrder(prog)[1]
    /\ b_spi' = "slow"
    /\ UNCHANGED <<b_initialised, lp_osc_freq, sleep_cnt, b_slpcnt, b_slpcfg, b_sleepaftertx,
                   tx_msg, b_calib, b_calibrated, b_configured, b_slept, b_initerr,
                   b_asleep_access>>
    /\ UNCHANGED xb_vars

\* the chip-select wake-up leaves a sleeping radio asleep
BCsWakeup_no_wake ==
    /\ b_pc \in {"cswake", "cswake2"}
    /\ b_pc' = BAfter(b_prog, b_pc)
    /\ b_chip' = b_chip
    /\ UNCHANGED <<b_prog, b_spi, b_initialised, lp_osc_freq, sleep_cnt, b_slpcnt, b_slpcfg,
                   b_sleepaftertx, tx_msg, b_calib, b_calibrated, b_configured, b_slept,
                   b_initerr, b_asleep_access>>
    /\ UNCHANGED xb_vars

\* dwt_spicswakeup(dummy_buffer, DUMMY_BUFFER_LEN): the chip select line held low wakes
\* a radio that is asleep; EX_01C and EX_01D call it before the reset, EX_01C also
\* after the delay of its loop
BCsWakeup ==
    /\ b_pc \in {"cswake", "cswake2"}
    /\ b_pc' = BAfter(b_prog, b_pc)
    /\ b_chip' = IF b_chip = "Asleep" THEN "Awake" ELSE b_chip
    /\ UNCHANGED <<b_prog, b_spi, b_initialised, lp_osc_freq, sleep_cnt, b_slpcnt, b_slpcfg,
                   b_sleepaftertx, tx_msg, b_calib, b_calibrated, b_configured, b_slept,
                   b_initerr, b_asleep_access>>
    /\ UNCHANGED xb_vars

\* reset_DW1000(): the radio is not woken by the reset line
BReset ==
    /\ b_pc = "reset"
    /\ b_pc' = BAfter(b_prog, b_pc)
    /\ b_initialised' = FALSE
    /\ UNCHANGED <<b_prog, b_spi, b_chip, lp_osc_freq, sleep_cnt, b_slpcnt, b_slpcfg,
                   b_sleepaftertx, tx_msg, b_calib, b_calibrated, b_configured, b_slept,
                   b_initerr, b_asleep_access>>
    /\ UNCHANGED xb_vars

\* port_set_dw1000_slowrate()
BSlowRate ==
    /\ b_pc \in {"slow1", "slow2"}
    /\ b_pc' = BAfter(b_prog, b_pc)
    /\ b_spi' = "slow"
    /\ UNCHANGED <<b_prog, b_chip, b_initialised, lp_osc_freq, sleep_cnt, b_slpcnt, b_slpcfg,
                   b_sleepaftertx, tx_msg, b_calib, b_calibrated, b_configured, b_slept,
                   b_initerr, b_asleep_access>>
    /\ UNCHANGED xb_vars

\* mutant of BInitialise: the program goes on after DWT_ERROR
BInitialise_ignore_error ==
    /\ b_pc = "init"
    /\ \E ret \in (IF b_chip = "Awake" THEN {"DWT_SUCCESS", "DWT_ERROR"} ELSE {"DWT_ERROR"}) :
          /\ b_initialised' = (ret = "DWT_SUCCESS")
          /\ b_initerr' = (ret = "DWT_ERROR")
          /\ b_pc' = BAfter(b_prog, b_pc)
    /\ b_asleep_access' = (b_asleep_access \/ b_chip = "Asleep")
    /\ UNCHANGED <<b_prog, b_spi, b_chip, lp_osc_freq, sleep_cnt, b_slpcnt, b_slpcfg,
                   b_sleepaftertx, tx_msg, b_calib, b_calibrated, b_configured, b_slept>>
    /\ UNCHANGED xb_vars

\* dwt_initialise(DWT_LOADNONE): DWT_ERROR when the device cannot be identified,
\* as when it is asleep; the program then stays in while (1) { }
BInitialise ==
    /\ b_pc = "init"
    /\ \E ret \in (IF b_chip = "Awake" THEN {"DWT_SUCCESS", "DWT_ERROR"} ELSE {"DWT_ERROR"}) :
          /\ b_initialised' = (ret = "DWT_SUCCESS")
          /\ b_initerr' = (ret = "DWT_ERROR")
          /\ b_pc' = IF ret = "DWT_ERROR" THEN "halt" ELSE BAfter(b_prog, b_pc)
    /\ b_asleep_access' = (b_asleep_access \/ b_chip = "Asleep")
    /\ UNCHANGED <<b_prog, b_spi, b_chip, lp_osc_freq, sleep_cnt, b_slpcnt, b_slpcfg,
                   b_sleepaftertx, tx_msg, b_calib, b_calibrated, b_configured, b_slept>>
    /\ UNCHANGED xb_vars

\* port_set_dw1000_fastrate()
BFastRate ==
    /\ b_pc \in {"fast1", "fast2"}
    /\ b_pc' = BAfter(b_prog, b_pc)
    /\ b_spi' = "fast"
    /\ UNCHANGED <<b_prog, b_chip, b_initialised, lp_osc_freq, sleep_cnt, b_slpcnt, b_slpcfg,
                   b_sleepaftertx, tx_msg, b_calib, b_calibrated, b_configured, b_slept,
                   b_initerr, b_asleep_access>>
    /\ UNCHANGED xb_vars

\* dwt_setlnapamode(DWT_LNA_ENABLE | DWT_PA_ENABLE)
BSetLnaPaMode ==
    /\ b_pc = "lna"
    /\ b_pc' = BAfter(b_prog, b_pc)
    /\ b_asleep_access' = (b_asleep_access \/ b_chip = "Asleep")
    /\ UNCHANGED <<b_prog, b_spi, b_chip, b_initialised, lp_osc_freq, sleep_cnt, b_slpcnt,
                   b_slpcfg, b_sleepaftertx, tx_msg, b_calib, b_calibrated, b_configured,
                   b_slept, b_initerr>>
    /\ UNCHANGED xb_vars

\* dwt_configure(&config)
BConfigure ==
    /\ b_pc = "configure"
    /\ b_pc' = BAfter(b_prog, b_pc)
    /\ b_asleep_access' = (b_asleep_access \/ b_chip = "Asleep")
    /\ UNCHANGED <<b_prog, b_spi, b_chip, b_initialised, lp_osc_freq, sleep_cnt, b_slpcnt,
                   b_slpcfg, b_sleepaftertx, tx_msg, b_calib, b_calibrated, b_configured,
                   b_slept, b_initerr>>
    /\ UNCHANGED xb_vars

\* dwt_setrxtimeout(INTERACTION_PERIOD_MAX_TIME_UUS): EX_08B; its loop starts after
\* dwt_setleds(1)
BSetRxTimeout ==
    /\ b_pc = "rxtimeout"
    /\ b_pc' = BAfter(b_prog, b_pc)
    /\ b_asleep_access' = (b_asleep_access \/ b_chip = "Asleep")
    /\ UNCHANGED <<b_prog, b_spi, b_chip, b_initialised, lp_osc_freq, sleep_cnt, b_slpcnt,
                   b_slpcfg, b_sleepaftertx, tx_msg, b_calib, b_calibrated, b_configured,
                   b_slept, b_initerr>>
    /\ UNCHANGED xb_vars

\* dwt_setleds(1)
BSetLeds ==
    /\ b_pc = "leds"
    /\ b_pc' = BAfter(b_prog, b_pc)
    /\ b_asleep_access' = (b_asleep_access \/ b_chip = "Asleep")
    /\ UNCHANGED <<b_prog, b_spi, b_chip, b_initialised, lp_osc_freq, sleep_cnt, b_slpcnt,
                   b_slpcfg, b_sleepaftertx, tx_msg, b_calib, b_calibrated, b_configured,
                   b_slept, b_initerr>>
    /\ UNCHANGED xb_vars

\* lp_osc_freq = (XTAL_FREQ_HZ / 2) / dwt_calibratesleepcnt(), in the width of lp_osc_freq
BCalibrate ==
    /\ b_pc = "calib"
    /\ b_pc' = BAfter(b_prog, b_pc)
    /\ \E count \in CalibCounts :
          /\ b_calib' = count
          /\ lp_osc_freq' = IF b_prog = "EX_01D"
                               THEN U16((XTAL_FREQ_HZ \div 2) \div count)
                               ELSE (XTAL_FREQ_HZ \div 2) \div count
    /\ b_calibrated' = Append(b_calibrated, <<b_spi, b_chip, b_initialised>>)
    /\ b_asleep_access' = (b_asleep_access \/ b_chip = "Asleep")
    /\ UNCHANGED <<b_prog, b_spi, b_chip, b_initialised, sleep_cnt, b_slpcnt, b_slpcfg,
                   b_sleepaftertx, tx_msg, b_configured, b_slept, b_initerr>>
    /\ UNCHANGED xb_vars

\* sleep_cnt = ((LONG_SLEEP_TIME_MS * lp_osc_freq) / 1000) >> 12 in EX_08A,
\* sleep_cnt = ((SLEEP_TIME_MS * lp_osc_freq) / 1000) >> 12 in EX_01D
BComputeSleepCnt ==
    /\ b_pc = "cnt"
    /\ b_pc' = BAfter(b_prog, b_pc)
    /\ sleep_cnt' = IF b_prog = "EX_01D"
                       THEN compute_ticks_u16(SLEEP_TIME_MS, lp_osc_freq)
                       ELSE compute_ticks_u32(LONG_SLEEP_TIME_MS, lp_osc_freq)
    /\ UNCHANGED <<b_prog, b_spi, b_chip, b_initialised, lp_osc_freq, b_slpcnt, b_slpcfg,
                   b_sleepaftertx, tx_msg, b_calib, b_calibrated, b_configured, b_slept,
                   b_initerr, b_asleep_access>>
    /\ UNCHANGED xb_vars

\* dwt_configuresleepcnt(sleep_cnt): the parameter is a uint16
BConfigureSleepCnt ==
    /\ b_pc = "cfgcnt"
    /\ b_pc' = BAfter(b_prog, b_pc)
    /\ b_slpcnt' = U16(sleep_cnt)
    /\ b_configured' = Append(b_configured, <<b_spi, b_chip, b_initialised>>)
    /\ b_asleep_access' = (b_asleep_access \/ b_chip = "Asleep")
    /\ UNCHANGED <<b_prog, b_spi, b_chip, b_initialised, lp_osc_freq, sleep_cnt, b_slpcfg,
                   b_sleepaftertx, tx_msg, b_calib, b_calibrated, b_slept, b_initerr>>
    /\ UNCHANGED xb_vars

\* dwt_configuresleep(mode, wake)
BConfigureSleep ==
    /\ b_pc = "cfgsleep"
    /\ b_pc' = BAfter(b_prog, b_pc)
    /\ b_slpcfg' = CASE b_prog = "EX_01D" -> SLEEP_CFG_01D
                        [] b_prog = "EX_01C" -> SLEEP_CFG_01C
                        [] OTHER -> SLEEP_CFG_LPL
    /\ b_asleep_access' = (b_asleep_access \/ b_chip = "Asleep")
    /\ UNCHANGED <<b_prog, b_spi, b_chip, b_initialised, lp_osc_freq, sleep_cnt, b_slpcnt,
                   b_sleepaftertx, tx_msg, b_calib, b_calibrated, b_configured, b_slept,
                   b_initerr>>
    /\ UNCHANGED xb_vars

\* dwt_entersleepaftertx(1)
BEnterSleepAfterTx ==
    /\ b_pc = "sleepaftertx"
    /\ b_pc' = BAfter(b_prog, b_pc)
    /\ b_sleepaftertx' = TRUE
    /\ b_asleep_access' = (b_asleep_access \/ b_chip = "Asleep")
    /\ UNCHANGED <<b_prog, b_spi, b_chip, b_initialised, lp_osc_freq, sleep_cnt, b_slpcnt,
                   b_slpcfg, tx_msg, b_calib, b_calibrated, b_configured, b_slept, b_initerr>>
    /\ UNCHANGED xb_vars

\* dwt_setsnoozetime(LPL_SHORT_SLEEP_SNOOZE_TIME)
BSetSnoozeTime ==
    /\ b_pc = "snooze"
    /\ b_pc' = BAfter(b_prog, b_pc)
    /\ b_asleep_access' = (b_asleep_access \/ b_chip = "Asleep")
    /\ UNCHANGED <<b_prog, b_spi, b_chip, b_initialised, lp_osc_freq, sleep_cnt, b_slpcnt,
                   b_slpcfg, b_sleepaftertx, tx_msg, b_calib, b_calibrated, b_configured,
                   b_slept, b_initerr>>
    /\ UNCHANGED xb_vars

\* dwt_setpreambledetecttimeout(LPL_RX_SNIFF_TIME)
BSetPreambleDetectTimeout ==
    /\ b_pc = "pdt"
    /\ b_pc' = BAfter(b_prog, b_pc)
    /\ b_asleep_access' = (b_asleep_access \/ b_chip = "Asleep")
    /\ UNCHANGED <<b_prog, b_spi, b_chip, b_initialised, lp_osc_freq, sleep_cnt, b_slpcnt,
                   b_slpcfg, b_sleepaftertx, tx_msg, b_calib, b_calibrated, b_configured,
                   b_slept, b_initerr>>
    /\ UNCHANGED xb_vars

\* dwt_setcallbacks(NULL, &rx_ok_cb, NULL, NULL)
BSetCallbacks ==
    /\ b_pc = "callbacks"
    /\ b_pc' = BAfter(b_prog, b_pc)
    /\ b_asleep_access' = (b_asleep_access \/ b_chip = "Asleep")
    /\ UNCHANGED <<b_prog, b_spi, b_chip, b_initialised, lp_osc_freq, sleep_cnt, b_slpcnt,
                   b_slpcfg, b_sleepaftertx, tx_msg, b_calib, b_calibrated, b_configured,
                   b_slept, b_initerr>>
    /\ UNCHANGED xb_vars

\* dwt_setinterrupt(DWT_INT_RFCG, 1)
BSetInterrupt ==
    /\ b_pc = "interrupt"
    /\ b_pc' = BAfter(b_prog, b_pc)
    /\ b_asleep_access' = (b_asleep_access \/ b_chip = "Asleep")
    /\ UNCHANGED <<b_prog, b_spi, b_chip, b_initialised, lp_osc_freq, sleep_cnt, b_slpcnt,
                   b_slpcfg, b_sleepaftertx, tx_msg, b_calib, b_calibrated, b_configured,
                   b_slept, b_initerr>>
    /\ UNCHANGED xb_vars

\* dwt_setlowpowerlistening(1)
BSetLowPowerListening ==
    /\ b_pc = "lpl"
    /\ b_pc' = BAfter(b_prog, b_pc)
    /\ b_asleep_access' = (b_asleep_access \/ b_chip = "Asleep")
    /\ UNCHANGED <<b_prog, b_spi, b_chip, b_initialised, lp_osc_freq, sleep_cnt, b_slpcnt,
                   b_slpcfg, b_sleepaftertx, tx_msg, b_calib, b_calibrated, b_configured,
                   b_slept, b_initerr>>
    /\ UNCHANGED xb_vars

\* dwt_entersleep(): the listener's radio starts its first long sleep; the loop of
\* the listener starts here
BEnterSleep ==
    /\ b_pc = "entersleep"
    /\ b_pc' = BAfter(b_prog, b_pc)
    /\ b_chip' = "Asleep"
    /\ b_slept' = TRUE
    /\ b_asleep_access' = (b_asleep_access \/ b_chip = "Asleep")
    /\ UNCHANGED <<b_prog, b_spi, b_initialised, lp_osc_freq, sleep_cnt, b_slpcnt, b_slpcfg,
                   b_sleepaftertx, tx_msg, b_calib, b_calibrated, b_configured, b_initerr>>
    /\ UNCHANGED xb_vars

\* dwt_writetxdata(sizeof(tx_msg), tx_msg, 0); dwt_writetxfctrl(sizeof(tx_msg), 0, 0)
TWrite ==
    /\ b_pc = "write"
    /\ b_pc' = BAfter(b_prog, b_pc)
    /\ b_asleep_access' = (b_asleep_access \/ b_chip = "Asleep")
    /\ UNCHANGED <<b_prog, b_spi, b_chip, b_initialised, lp_osc_freq, sleep_cnt, b_slpcnt,
                   b_slpcfg, b_sleepaftertx, tx_msg, b_calib, b_calibrated, b_configured,
                   b_slept, b_initerr>>
    /\ UNCHANGED xb_vars

\* dwt_starttx(DWT_START_TX_IMMEDIATE): a radio that is asleep takes no command
TStartTx ==
    /\ b_pc = "starttx"
    /\ b_pc' = BAfter(b_prog, b_pc)
    /\ b_chip' = IF b_chip = "Awake" THEN "Tx" ELSE b_chip
    /\ b_asleep_access' = (b_asleep_access \/ b_chip = "Asleep")
    /\ UNCHANGED <<b_prog, b_spi, b_initialised, lp_osc_freq, sleep_cnt, b_slpcnt, b_slpcfg,
                   b_sleepaftertx, tx_msg, b_calib, b_calibrated, b_configured, b_slept,
                   b_initerr>>
    /\ UNCHANGED xb_vars

\* the time from dwt_starttx() to the start of the radio's sleep and from the
\* end of the sleep to a radio that takes commands again, together, in
\* microseconds: the margin SLEEP_TIME_MS leaves below TX_DELAY_MS is for it
WakeOverheadsUs == {3000, 9999}

\* with the sleep count configured the radio of EX_01D may still be asleep when
\* Sleep(TX_DELAY_MS) returns
SleepOutlastsDelay ==
    \E o \in WakeOverheadsUs : o + LongSleepUs(b_slpcnt, b_calib) >= TX_DELAY_MS_01D * 1000

\* Sleep(TX_DELAY_MS): the delay of one second outlasts the transmission of the
\* frame and, in EX_01D, a sleep of the radio that is shorter than it
TDelay ==
    /\ b_pc = "delay"
    /\ b_pc' = BAfter(b_prog, b_pc)
    /\ b_chip # "Tx"
    /\ (b_prog = "EX_01D" /\ b_chip = "Asleep") => SleepOutlastsDelay
    /\ UNCHANGED <<b_prog, b_spi, b_chip, b_initialised, lp_osc_freq, sleep_cnt, b_slpcnt,
                   b_slpcfg, b_sleepaftertx, tx_msg, b_calib, b_calibrated, b_configured,
                   b_slept, b_initerr, b_asleep_access>>
    /\ UNCHANGED xb_vars

\* tx_msg[BLINK_FRAME_SN_IDX]++, then the next turn of the loop
TSeq ==
    /\ b_pc = "seq"
    /\ b_pc' = "write"
    /\ tx_msg' = Put(tx_msg, BLINK_FRAME_SN_IDX, U8(At(tx_msg, BLINK_FRAME_SN_IDX) + 1))
    /\ UNCHANGED <<b_prog, b_spi, b_chip, b_initialised, lp_osc_freq, sleep_cnt, b_slpcnt,
                   b_slpcfg, b_sleepaftertx, b_calib, b_calibrated, b_configured, b_slept,
                   b_initerr, b_asleep_access>>
    /\ UNCHANGED xb_vars

\* the frame is sent: the radio goes to sleep when dwt_entersleepaftertx(1) was called
TTxDone ==
    /\ b_chip = "Tx"
    /\ b_chip' = IF b_sleepaftertx THEN "Asleep" ELSE "Awake"
    /\ b_slept' = (b_slept \/ b_sleepaftertx)
    /\ UNCHANGED <<b_prog, b_pc, b_spi, b_initialised, lp_osc_freq, sleep_cnt, b_slpcnt,
                   b_slpcfg, b_sleepaftertx, tx_msg, b_calib, b_calibrated, b_configured,
                   b_initerr, b_asleep_access>>
    /\ UNCHANGED xb_vars

\* the sleep counter runs out and wakes the radio of EX_01D (DWT_WAKE_SLPCNT)
TSleepCounter ==
    /\ b_prog = "EX_01D"
    /\ b_chip = "Asleep"
    /\ b_initialised
    /\ "WAKE_SLPCNT" \in b_slpcfg[2]
    /\ b_chip' = "Awake"
    /\ UNCHANGED <<b_prog, b_pc, b_spi, b_initialised, lp_osc_freq, sleep_cnt, b_slpcnt,
                   b_slpcfg, b_sleepaftertx, tx_msg, b_calib, b_calibrated, b_configured,
                   b_slept, b_initerr, b_asleep_access>>
    /\ UNCHANGED xb_vars

BNext ==
    \/ BPowerOn
    \/ BCsWakeup
    \/ BReset
    \/ BSlowRate
    \/ BInitialise
    \/ BFastRate
    \/ BSetLnaPaMode
    \/ BConfigure
    \/ BSetRxTimeout
    \/ BSetLeds
    \/ BCalibrate
    \/ BComputeSleepCnt
    \/ BConfigureSleepCnt
    \/ BConfigureSleep
    \/ BEnterSleepAfterTx
    \/ BSetSnoozeTime
    \/ BSetPreambleDetectTimeout
    \/ BSetCallbacks
    \/ BSetInterrupt
    \/ BSetLowPowerListening
    \/ BEnterSleep
    \/ TWrite
    \/ TStartTx
    \/ TDelay
    \/ TSeq
    \/ TTxDone
    \/ TSleepCounter

(***************************************************************************)
(* Waker and listener on the air: EX_08B and EX_08A in microseconds        *)
(*                                                                         *)
(* The two programs run against one clock.  Each node has one pending      *)
(* event, and the earlier one is taken next.  The waker is followed burst  *)
(* by burst; the frame it has on the air at a time follows from the start  *)
(* of the burst, frame i of a burst carrying the countdown                 *)
(* WUS_FRAME_NB - 1 - i.  The listener is followed phase by phase.         *)
(***************************************************************************)

\* static dwt_config_t config of EX_08A, the listener
config_08A ==
    [chan |-> 2, prf |-> "DWT_PRF_16M", txPreambLength |-> 1024, rxPAC |-> 16,
     txCode |-> 3, rxCode |-> 3, nsSFD |-> 0, dataRate |-> "DWT_BR_6M8",
     phrMode |-> "DWT_PHRMODE_STD", sfdTO |-> 1024 + 1 + 8 - 16]

\* static dwt_config_t config of EX_08B, the waker
config_08B ==
    [chan |-> 5, prf |-> "DWT_PRF_64M", txPreambLength |-> 128, rxPAC |-> 8,
     txCode |-> 9, rxCode |-> 9, nsSFD |-> 1, dataRate |-> "DWT_BR_6M8",
     phrMode |-> "DWT_PHRMODE_EXT", sfdTO |-> 129]

\* a receiver configured with rx detects and decodes the frames of a transmitter
\* configured with tx: same channel, pulse repetition frequency, preamble code,
\* SFD type, data rate and PHY header mode
Receivable(tx, rx) ==
    /\ tx.chan = rx.chan
    /\ tx.prf = rx.prf
    /\ tx.txCode = rx.rxCode
    /\ tx.nsSFD = rx.nsSFD
    /\ tx.dataRate = rx.dataRate
    /\ tx.phrMode = rx.phrMode

\* length of the preamble of a frame: a preamble symbol lasts about 1 us
PreambleUs(cfg) == cfg.txPreambLength

INTERACTION_PERIOD_MAX_TIME_UUS == 48750

\* the receive timeout of the waker: 1 UWB microsecond is 512 / 499.2 us
RxWindowUs == (INTERACTION_PERIOD_MAX_TIME_UUS * 5120) \div 4992

\* duration of a burst: WUS_FRAME_NB frames, one every WUS_FRAME_TIME_US
BurstUs == WUS_FRAME_NB * WUS_FRAME_TIME_US

\* time on the air of the interaction frame: the preamble of the listener's
\* configuration and a data part shorter than that of a wake frame
InteractionAirUs == WUS_FRAME_TIME_US

\* duration of dwt_spicswakeup(): the 600-byte read at 8 MHz or at 256 kHz, and
\* the start of the crystal
WakeUs == {5600, 24000}

\* what dwt_calibratesleepcnt() returned when the listener started
PairCalibCounts == {1757, 1920}

\* the long sleep of the listener's duty cycle
PairLongSleepUs(calib) ==
    LongSleepUs(compute_ticks_u32(LONG_SLEEP_TIME_MS, (XTAL_FREQ_HZ \div 2) \div calib), calib)

\* the times of the listener's first reception phase after the burst has begun
PhaseOffsets == {c * 400000 + f * 23 : c \in 0..3, f \in 0..49}

\* frame i of burst b as the waker puts it on the air
PairWakeFrame(b, dest, i) ==
    dwt_writetxdata([wus_msg_init EXCEPT
        ![DATA_FRAME_SEQ_NB_IDX + 1] = (b * WUS_FRAME_NB + i) % 256,
        ![DATA_FRAME_DEST_ADDR_IDX + 1] = dest,
        ![DATA_FRAME_WUS_CNTDWN_IDX + 1] = (WUS_FRAME_NB - 1 - i) % 256,
        ![DATA_FRAME_WUS_CNTDWN_IDX + 2] = (WUS_FRAME_NB - 1 - i) \div 256])

\* the frame of the burst that is on the air at time t
FrameIndexAt(t) == (t - p_T0) \div WUS_FRAME_TIME_US

\* a reception phase that ends at time t has had LPL_RX_SNIFF_TIME + 1 PACs of a
\* preamble the listener can detect
PreambleSeen(t) ==
    /\ p_w = "burst"
    /\ Receivable(p_cfg, config_08A)
    /\ t - SniffUs >= p_T0
    /\ ((t - SniffUs - p_T0) % WUS_FRAME_TIME_US) + SniffUs <= PreambleUs(p_cfg)

\* the waker's receiver is on, it can decode the listener's frame, and it was
\* switched on while enough of the preamble was left
WakerHears ==
    /\ p_w = "rxwin"
    /\ Receivable(config_08A, p_cfg)
    /\ p_rxen + SniffUs <= p_tx[1] + PreambleUs(config_08A)

\* the node whose pending event is the earlier one acts
ListenerIsNext == p_lt <= p_wt
WakerIsNext == p_wt <= p_lt

PInit ==
    /\ p_cfg = config_08B
    /\ p_calib = 0
    /\ p_now = 0
    /\ p_w = "off"
    /\ p_wt = 0
    /\ p_T0 = 0
    /\ p_wb = 0
    /\ p_wdest = wus_msg_init[DATA_FRAME_DEST_ADDR_IDX + 1]
    /\ p_wout = "none"
    /\ p_rxen = 0
    /\ p_l = "off"
    /\ p_lt = 0
    /\ p_rx = 0
    /\ p_hit = 0
    /\ p_cap = [burst |-> -1, index |-> 0, frame |-> <<>>, time |-> 0]
    /\ p_ncap = 0
    /\ p_tx = <<>>

\* both nodes are switched on: the waker starts its first burst at time 0, the
\* listener is in the long sleep of its duty cycle and its sleep counter expires
\* at the phase offset
PStart ==
    /\ p_w = "off"
    /\ \E c \in {config_08B, config_08A} : p_cfg' = c
    /\ \E n \in PairCalibCounts : p_calib' = n
    /\ \E o \in PhaseOffsets : p_lt' = o
    /\ p_w' = "burst"
    /\ p_wt' = BurstUs
    /\ p_l' = "DeepSleep"
    /\ UNCHANGED <<p_now, p_T0, p_wb, p_wdest, p_wout, p_rxen, p_rx, p_hit, p_cap, p_ncap, p_tx>>
    /\ UNCHANGED xp_vars

\* the sleep counter expires: the first reception phase starts (dwt_setsnoozetime,
\* dwt_setpreambledetecttimeout: LPL_RX_SNIFF_TIME)
PSleepCounter ==
    /\ p_l = "DeepSleep"
    /\ ListenerIsNext
    /\ p_now' = p_lt
    /\ p_l' = "Sniff1"
    /\ p_lt' = p_lt + SniffUs
    /\ UNCHANGED <<p_cfg, p_calib, p_w, p_wt, p_T0, p_wb, p_wdest, p_wout, p_rxen, p_rx, p_hit, p_cap, p_ncap, p_tx>>
    /\ UNCHANGED xp_vars

\* a reception phase ends with a preamble detected: the radio stays on and receives
\* the frame of the burst that is on the air
PPreambleHit ==
    /\ p_l \in {"Sniff1", "Sniff2"}
    /\ ListenerIsNext
    /\ PreambleSeen(p_lt)
    /\ p_now' = p_lt
    /\ p_l' = "Rx"
    /\ p_rx' = FrameIndexAt(p_lt - SniffUs)
    /\ p_hit' = IF p_l = "Sniff1" THEN 1 ELSE 2
    /\ p_lt' = p_T0 + (FrameIndexAt(p_lt - SniffUs) + 1) * WUS_FRAME_TIME_US
    /\ UNCHANGED <<p_cfg, p_calib, p_w, p_wt, p_T0, p_wb, p_wdest, p_wout, p_rxen, p_cap, p_ncap, p_tx>>
    /\ UNCHANGED xp_vars

\* preamble detection timeout of the first reception phase: short sleep
PSniff1Timeout ==
    /\ p_l = "Sniff1"
    /\ ListenerIsNext
    /\ ~PreambleSeen(p_lt)
    /\ p_now' = p_lt
    /\ p_l' = "Snooze"
    /\ p_lt' = p_lt + SnoozeUs
    /\ UNCHANGED <<p_cfg, p_calib, p_w, p_wt, p_T0, p_wb, p_wdest, p_wout, p_rxen, p_rx, p_hit, p_cap, p_ncap, p_tx>>
    /\ UNCHANGED xp_vars

\* the short sleep ends: second reception phase
PSnoozeEnd ==
    /\ p_l = "Snooze"
    /\ ListenerIsNext
    /\ p_now' = p_lt
    /\ p_l' = "Sniff2"
    /\ p_lt' = p_lt + SniffUs
    /\ UNCHANGED <<p_cfg, p_calib, p_w, p_wt, p_T0, p_wb, p_wdest, p_wout, p_rxen, p_rx, p_hit, p_cap, p_ncap, p_tx>>
    /\ UNCHANGED xp_vars

\* preamble detection timeout of the second reception phase: long sleep
PSniff2Timeout ==
    /\ p_l = "Sniff2"
    /\ ListenerIsNext
    /\ ~PreambleSeen(p_lt)
    /\ p_now' = p_lt
    /\ p_l' = "DeepSleep"
    /\ p_lt' = p_lt + PairLongSleepUs(p_calib)
    /\ UNCHANGED <<p_cfg, p_calib, p_w, p_wt, p_T0, p_wb, p_wdest, p_wout, p_rxen, p_rx, p_hit, p_cap, p_ncap, p_tx>>
    /\ UNCHANGED xp_vars

\* the frame is received: rx_ok_cb accepts a wake frame and the main loop puts the
\* radio to sleep and sleeps for the time computed from the countdown; any other
\* frame returns the radio to its duty cycle
PRxGood ==
    /\ p_l = "Rx"
    /\ ListenerIsNext
    /\ p_now' = p_lt
    /\ LET f == PairWakeFrame(p_wb, p_wdest, p_rx)
           end_ms == EndTimeMs(ReadCountdown(f))
       IN  IF IsWakeFrame(f)
           THEN /\ p_cap' = [burst |-> p_wb, index |-> p_rx, frame |-> f, time |-> p_lt]
                /\ p_ncap' = p_ncap + 1
                /\ p_l' = "CsSleep"
                /\ p_lt' = p_lt + 1000 * (IF IsForMe(f) THEN end_ms ELSE SleepTimeMs(end_ms))
           ELSE /\ p_l' = "DeepSleep"
                /\ p_lt' = p_lt + PairLongSleepUs(p_calib)
                /\ UNCHANGED <<p_cap, p_ncap>>
    /\ UNCHANGED <<p_cfg, p_calib, p_w, p_wt, p_T0, p_wb, p_wdest, p_wout, p_rxen, p_rx, p_hit, p_tx>>
    /\ UNCHANGED xp_vars

\* Sleep() returns: dwt_spicswakeup(dummy_buffer, DUMMY_BUFFER_LEN)
PWake ==
    /\ p_l = "CsSleep"
    /\ ListenerIsNext
    /\ p_now' = p_lt
    /\ p_l' = "Waking"
    /\ \E d \in WakeUs : p_lt' = p_lt + d
    /\ UNCHANGED <<p_cfg, p_calib, p_w, p_wt, p_T0, p_wb, p_wdest, p_wout, p_rxen, p_rx, p_hit, p_cap, p_ncap, p_tx>>
    /\ UNCHANGED xp_vars

\* the radio is awake and the wake-up was for this node: dwt_writetxdata,
\* dwt_writetxfctrl, dwt_starttx(DWT_START_TX_IMMEDIATE)
PStartTx ==
    /\ p_l = "Waking"
    /\ IsForMe(p_cap.frame)
    /\ ListenerIsNext
    /\ p_now' = p_lt
    /\ p_l' = "Tx"
    /\ p_tx' = <<p_lt, p_lt + InteractionAirUs>>
    /\ p_lt' = p_lt + InteractionAirUs
    /\ UNCHANGED <<p_cfg, p_calib, p_w, p_wt, p_T0, p_wb, p_wdest, p_wout, p_rxen, p_rx, p_hit, p_cap, p_ncap>>
    /\ UNCHANGED xp_vars

\* the radio is awake and the wake-up was for another node: low-power listening
\* is resumed
PResume ==
    /\ p_l = "Waking"
    /\ ~IsForMe(p_cap.frame)
    /\ ListenerIsNext
    /\ p_now' = p_lt
    /\ p_l' = "DeepSleep"
    /\ p_lt' = p_lt + PairLongSleepUs(p_calib)
    /\ UNCHANGED <<p_cfg, p_calib, p_w, p_wt, p_T0, p_wb, p_wdest, p_wout, p_rxen, p_rx, p_hit, p_cap, p_ncap, p_tx>>
    /\ UNCHANGED xp_vars

\* the interaction frame has been sent (TXFRS): low-power listening is resumed; the
\* waker receives the frame if its receiver can hear it
PTxDone ==
    /\ p_l = "Tx"
    /\ ListenerIsNext
    /\ p_now' = p_lt
    /\ p_l' = "DeepSleep"
    /\ p_lt' = p_lt + PairLongSleepUs(p_calib)
    /\ IF WakerHears
       THEN /\ p_wout' = "frame"
            /\ p_w' = "delay"
            /\ p_wt' = p_lt + 1000 * TX_DELAY_MS
       ELSE UNCHANGED <<p_wout, p_w, p_wt>>
    /\ UNCHANGED <<p_cfg, p_calib, p_T0, p_wb, p_wdest, p_rxen, p_rx, p_hit, p_cap, p_ncap, p_tx>>
    /\ UNCHANGED xp_vars

\* the last frame of the burst has been sent: dwt_rxenable(DWT_START_RX_IMMEDIATE),
\* with the timeout of dwt_setrxtimeout(INTERACTION_PERIOD_MAX_TIME_UUS)
PBurstEnd ==
    /\ p_w = "burst"
    /\ WakerIsNext
    /\ p_now' = p_wt
    /\ p_w' = "rxwin"
    /\ p_rxen' = p_wt
    /\ p_wt' = p_wt + RxWindowUs
    /\ UNCHANGED <<p_cfg, p_calib, p_T0, p_wb, p_wdest, p_wout, p_l, p_lt, p_rx, p_hit, p_cap, p_ncap, p_tx>>
    /\ UNCHANGED xp_vars

\* SYS_STATUS_ALL_RX_TO: the interaction period ends without a frame
PRxTimeout ==
    /\ p_w = "rxwin"
    /\ WakerIsNext
    /\ p_now' = p_wt
    /\ p_wout' = "timeout"
    /\ p_w' = "delay"
    /\ p_wt' = p_wt + 1000 * TX_DELAY_MS
    /\ UNCHANGED <<p_cfg, p_calib, p_T0, p_wb, p_wdest, p_rxen, p_l, p_lt, p_rx, p_hit, p_cap, p_ncap, p_tx>>
    /\ UNCHANGED xp_vars

\* Sleep(TX_DELAY_MS) returns: the destination is toggled and the next burst starts
PDelayEnd ==
    /\ p_w = "delay"
    /\ WakerIsNext
    /\ p_wb + 1 < MaxBursts
    /\ p_now' = p_wt
    /\ p_wb' = p_wb + 1
    /\ p_wdest' = IF p_wdest = CH_X THEN 0 ELSE CH_X
    /\ p_w' = "burst"
    /\ p_T0' = p_wt
    /\ p_wt' = p_wt + BurstUs
    /\ p_wout' = "none"
    /\ p_ncap' = 0
    /\ p_tx' = <<>>
    /\ UNCHANGED <<p_cfg, p_calib, p_rxen, p_l, p_lt, p_rx, p_hit, p_cap>>
    /\ UNCHANGED xp_vars

PNext ==
    \/ PStart
    \/ PSleepCounter
    \/ PPreambleHit
    \/ PSniff1Timeout
    \/ PSnoozeEnd
    \/ PSniff2Timeout
    \/ PRxGood
    \/ PWake
    \/ PStartTx
    \/ PResume
    \/ PTxDone
    \/ PBurstEnd
    \/ PRxTimeout
    \/ PDelayEnd

(***************************************************************************)
(* The countdown field: written by EX_08B, read by EX_08A                  *)
(***************************************************************************)

\* the values of a uint16 frame_counter
CountdownValues == 0..65535

CInit ==
    /\ c_pc = "off"
    /\ c_v = 0
    /\ c_msg = wus_msg_init
    /\ c_rx = [i \in 1..WUS_FRAME_LEN |-> 0]
    /\ c_nb = 0
    /\ c_ms = 0

\* the waker writes a value of frame_counter into wus_msg
CStamp ==
    /\ c_pc = "off"
    /\ \E v \in CountdownValues :
          /\ c_v' = v
          /\ c_msg' = WriteCountdown(wus_msg_init, v)
    /\ c_pc' = "stamped"
    /\ UNCHANGED <<c_rx, c_nb, c_ms>>
    /\ UNCHANGED xc_vars

\* dwt_writetxdata() and the transmission by the waker, reception and
\* dwt_readrxdata(rx_buffer, cb_data->datalength, 0) by the listener
CReceive ==
    /\ c_pc = "stamped"
    /\ c_rx' = dwt_writetxdata(c_msg)
    /\ c_pc' = "received"
    /\ UNCHANGED <<c_v, c_msg, c_nb, c_ms>>
    /\ UNCHANGED xc_vars

\* wus_end_frame_nb = (rx_buffer[11] << 8) + rx_buffer[10];
CDecode ==
    /\ c_pc = "received"
    /\ c_nb' = ReadCountdown(c_rx)
    /\ c_pc' = "decoded"
    /\ UNCHANGED <<c_v, c_msg, c_rx, c_ms>>
    /\ UNCHANGED xc_vars

\* wus_end_time_ms = (wus_end_frame_nb * WUS_FRAME_TIME_US) / 1000;
CEndTime ==
    /\ c_pc = "decoded"
    /\ c_ms' = EndTimeMs(c_nb)
    /\ c_pc' = "timed"
    /\ UNCHANGED <<c_v, c_msg, c_rx, c_nb>>
    /\ UNCHANGED xc_vars

CNext == CStamp \/ CReceive \/ CDecode \/ CEndTime

(***************************************************************************)
(* The SPI transport: deca_spi.c                                           *)
(***************************************************************************)

\* uint8_t tx_buf[255]; uint8_t rx_buf[255];
SPI_BUF_LEN == 255

\* #define DUMMY_BUFFER_LEN 600
DUMMY_BUFFER_LEN == 600

MaxSpiCalls == 3

\* the transaction header the driver builds: register, sub-index flag and one or
\* two bytes of sub-index
HeaderLengths == 1..3

\* the transactions of the programs: register reads and writes, the frame data
\* written before a transmission, the frame data read after a reception and
\* the dummy read of dwt_spicswakeup(), whose length is that of the buffer given
SpiCalls ==
    { [op |-> "read", len |-> 4, by |-> "dwt_read32bitreg"],
      [op |-> "write", len |-> 4, by |-> "dwt_write32bitreg"],
      [op |-> "write", len |-> WUS_FRAME_LEN - 2, by |-> "dwt_writetxdata"],
      [op |-> "read", len |-> WUS_FRAME_LEN, by |-> "dwt_readrxdata"],
      [op |-> "read", len |-> RX_BUF_LEN, by |-> "dwt_readrxdata"],
      [op |-> "read", len |-> DUMMY_BUFFER_LEN, by |-> "dwt_spicswakeup"] }

NoCall == [op |-> "none", hdr |-> 0, len |-> 0, by |-> "none"]

\* openspi(): memset(&tx_buf[0], 0, 255); memset(&rx_buf[0], 0, 255);
SInit ==
    /\ s_pc = "idle"
    /\ s_call = NoCall
    /\ s_tx_end = SPI_BUF_LEN
    /\ s_rx_end = SPI_BUF_LEN
    /\ s_len = 0
    /\ s_calls = 0

Max(a, b) == IF a >= b THEN a ELSE b

\* a write that went past the end of a buffer has overwritten what the linker
\* placed behind it: the program goes on or it stops
AfterWrite(end, next) == IF end > SPI_BUF_LEN THEN {next, "fault"} ELSE {next}

\* the driver calls writetospi() or readfromspi()
SCall ==
    /\ s_pc = "idle"
    /\ s_calls < MaxSpiCalls
    /\ \E c \in SpiCalls, h \in HeaderLengths :
          /\ s_call' = [op |-> c.op, hdr |-> h, len |-> c.len, by |-> c.by]
          /\ s_pc' = IF c.op = "write" THEN "w_header" ELSE "r_clear"
    /\ s_calls' = s_calls + 1
    /\ UNCHANGED <<s_tx_end, s_rx_end, s_len>>
    /\ UNCHANGED xs_vars

\* writetospi: memcpy(&tx_buf[0], headerBuffer, headerLength);
SWriteHeader ==
    /\ s_pc = "w_header"
    /\ s_tx_end' = Max(s_tx_end, s_call.hdr)
    /\ s_pc' \in AfterWrite(s_call.hdr, "w_body")
    /\ UNCHANGED <<s_call, s_rx_end, s_len, s_calls>>
    /\ UNCHANGED xs_vars

\* writetospi: memcpy(&tx_buf[headerLength], bodyBuffer, bodyLength);
SWriteBody ==
    /\ s_pc = "w_body"
    /\ s_tx_end' = Max(s_tx_end, s_call.hdr + s_call.len)
    /\ s_pc' \in AfterWrite(s_call.hdr + s_call.len, "transceive")
    /\ UNCHANGED <<s_call, s_rx_end, s_len, s_calls>>
    /\ UNCHANGED xs_vars

\* readfromspi: memset(&tx_buf[0], 0, headerLength+readlength);
SReadClear ==
    /\ s_pc = "r_clear"
    /\ s_tx_end' = Max(s_tx_end, s_call.hdr + s_call.len)
    /\ s_pc' \in AfterWrite(s_call.hdr + s_call.len, "r_header")
    /\ UNCHANGED <<s_call, s_rx_end, s_len, s_calls>>
    /\ UNCHANGED xs_vars

\* readfromspi: memcpy(&tx_buf[0], headerBuffer, headerLength);
SReadHeader ==
    /\ s_pc = "r_header"
    /\ s_tx_end' = Max(s_tx_end, s_call.hdr)
    /\ s_pc' = "transceive"
    /\ UNCHANGED <<s_call, s_rx_end, s_len, s_calls>>
    /\ UNCHANGED xs_vars

\* bufs[0].len = bufs[1].len = headerLength + length; spi_transceive(spi, &spi_cfg, &tx, &rx):
\* as many bytes are clocked into rx_buf as are sent from tx_buf
STransceive ==
    /\ s_pc = "transceive"
    /\ s_len' = s_call.hdr + s_call.len
    /\ s_rx_end' = Max(s_rx_end, s_call.hdr + s_call.len)
    /\ s_pc' \in AfterWrite(s_call.hdr + s_call.len,
                            IF s_call.op = "write" THEN "return" ELSE "r_copy")
    /\ UNCHANGED <<s_call, s_tx_end, s_calls>>
    /\ UNCHANGED xs_vars

\* readfromspi: memcpy(readBuffer, rx_buf+headerLength, readlength);
SReadCopy ==
    /\ s_pc = "r_copy"
    /\ s_pc' = "return"
    /\ UNCHANGED <<s_call, s_tx_end, s_rx_end, s_len, s_calls>>
    /\ UNCHANGED xs_vars

\* return 0;
SReturn ==
    /\ s_pc = "return"
    /\ s_pc' = "idle"
    /\ s_call' = NoCall
    /\ UNCHANGED <<s_tx_end, s_rx_end, s_len, s_calls>>
    /\ UNCHANGED xs_vars

SNext ==
    \/ SCall \/ SWriteHeader \/ SWriteBody \/ SReadClear \/ SReadHeader
    \/ STransceive \/ SReadCopy \/ SReturn

(***************************************************************************)
(* Transmitter with clear-channel assessment: ex_01e_tx_with_cca.c         *)
(***************************************************************************)

\* #define TX_DELAY_MS 100
TX_DELAY_MS_01E == 100

\* #define INITIAL_BACKOFF_PERIOD 400
INITIAL_BACKOFF_PERIOD == 400

\* #define BLINK_FRAME_SN_IDX 1
BLINK_FRAME_SN_IDX_01E == 1

MaxCcaIters == 4

\* static uint8 tx_msg[] = {0xC5, 0, 'D', 'E', 'C', 'A', 'W', 'A', 'V', 'E', 0, 0};
tx_msg_01E == <<197, 0, 68, 69, 67, 65, 87, 65, 86, 69, 0, 0>>

\* the events of SYS_STATUS the loop reads
CcaEvents == {"RXPRD", "RXPTO", "TXFRS"}

\* the state when the loop is entered: the radio is initialised, configured
\* and idle, no event is latched
EInit ==
    /\ e_pc = "write"
    /\ e_tx_msg = tx_msg_01E
    /\ tx_sleep_period = 0
    /\ next_backoff_interval = INITIAL_BACKOFF_PERIOD
    /\ channel_clear = -1
    /\ e_status_reg = {}
    /\ e_status = {}
    /\ e_radio = "Idle"
    /\ e_txpend = FALSE
    /\ e_txbuf = tx_msg_01E
    /\ e_air = <<>>
    /\ e_iter = 1
    /\ e_raised = [b \in CcaEvents |-> 0]
    /\ e_fails = 0
    /\ e_seq0 = 0
    /\ e_sent0 = 0

\* dwt_writetxdata(sizeof(tx_msg), tx_msg, 0); dwt_writetxfctrl(sizeof(tx_msg), 0, 0);
EWriteTxData ==
    /\ e_pc = "write"
    /\ e_txbuf' = e_tx_msg
    /\ e_pc' = "rxenable"
    /\ UNCHANGED <<e_tx_msg, tx_sleep_period, next_backoff_interval, channel_clear,
                   e_status_reg, e_status, e_radio, e_txpend, e_air, e_iter, e_raised,
                   e_fails, e_seq0, e_sent0>>
    /\ UNCHANGED xe_vars

\* dwt_rxenable(DWT_START_RX_IMMEDIATE): the receiver starts hunting for a
\* preamble; the events latched in SYS_STATUS stay as they are
ERxEnable ==
    /\ e_pc = "rxenable"
    /\ e_radio' = IF e_radio = "Idle" THEN "Cca" ELSE e_radio
    /\ e_pc' = "starttx"
    /\ UNCHANGED <<e_tx_msg, tx_sleep_period, next_backoff_interval, channel_clear,
                   e_status_reg, e_status, e_txpend, e_txbuf, e_air, e_iter, e_raised,
                   e_fails, e_seq0, e_sent0>>
    /\ UNCHANGED xe_vars

\* dwt_starttx(DWT_START_TX_IMMEDIATE): the transmission waits for the receive
\* command to finish; with the receiver already timed out it starts at once
EStartTx ==
    /\ e_pc = "starttx"
    /\ IF e_radio = "Idle"
          THEN e_radio' = "Tx" /\ e_txpend' = FALSE
          ELSE e_radio' = e_radio /\ e_txpend' = TRUE
    /\ e_pc' = "poll"
    /\ UNCHANGED <<e_tx_msg, tx_sleep_period, next_backoff_interval, channel_clear,
                   e_status_reg, e_status, e_txbuf, e_air, e_iter, e_raised, e_fails,
                   e_seq0, e_sent0>>
    /\ UNCHANGED xe_vars

\* while (!((status_reg = dwt_read32bitreg(SYS_STATUS_ID)) &
\*          (SYS_STATUS_RXPRD | SYS_STATUS_RXPTO))) {};
EPoll ==
    /\ e_pc = "poll"
    /\ e_status \cap {"RXPRD", "RXPTO"} # {}
    /\ e_status_reg' = e_status
    /\ e_pc' = "branch"
    /\ UNCHANGED <<e_tx_msg, tx_sleep_period, next_backoff_interval, channel_clear,
                   e_status, e_radio, e_txpend, e_txbuf, e_air, e_iter, e_raised,
                   e_fails, e_seq0, e_sent0>>
    /\ UNCHANGED xe_vars

\* if (status_reg & SYS_STATUS_RXPTO) { channel_clear = 1;
EClear ==
    /\ e_pc = "branch"
    /\ "RXPTO" \in e_status_reg
    /\ channel_clear' = 1
    /\ e_pc' = "txwait"
    /\ UNCHANGED <<e_tx_msg, tx_sleep_period, next_backoff_interval, e_status_reg,
                   e_status, e_radio, e_txpend, e_txbuf, e_air, e_iter, e_raised,
                   e_fails, e_seq0, e_sent0>>
    /\ UNCHANGED xe_vars

\* while (!(dwt_read32bitreg(SYS_STATUS_ID) & SYS_STATUS_TXFRS)) {};
ETxWait ==
    /\ e_pc = "txwait"
    /\ "TXFRS" \in e_status
    /\ e_pc' = "sent"
    /\ UNCHANGED <<e_tx_msg, tx_sleep_period, next_backoff_interval, channel_clear,
                   e_status_reg, e_status, e_radio, e_txpend, e_txbuf, e_air, e_iter,
                   e_raised, e_fails, e_seq0, e_sent0>>
    /\ UNCHANGED xe_vars

\* tx_sleep_period = TX_DELAY_MS; next_backoff_interval = INITIAL_BACKOFF_PERIOD;
\* tx_msg[BLINK_FRAME_SN_IDX]++; }
ESent ==
    /\ e_pc = "sent"
    /\ tx_sleep_period' = TX_DELAY_MS_01E
    /\ next_backoff_interval' = INITIAL_BACKOFF_PERIOD
    /\ e_tx_msg' = Put(e_tx_msg, BLINK_FRAME_SN_IDX_01E,
                       U8(At(e_tx_msg, BLINK_FRAME_SN_IDX_01E) + 1))
    /\ e_fails' = 0
    /\ e_pc' = "sleep"
    /\ UNCHANGED <<channel_clear, e_status_reg, e_status, e_radio, e_txpend, e_txbuf,
                   e_air, e_iter, e_raised, e_seq0, e_sent0>>
    /\ UNCHANGED xe_vars

\* else { dwt_forcetrxoff();  the transceiver goes idle, the pending
\* transmission is dropped and the driver clears the events of the transmitter
\* and of the receiver
EForceTrxOff ==
    /\ e_pc = "branch"
    /\ "RXPTO" \notin e_status_reg
    /\ e_radio' = "Idle"
    /\ e_txpend' = FALSE
    /\ e_status' = {}
    /\ e_pc' = "backoff"
    /\ UNCHANGED <<e_tx_msg, tx_sleep_period, next_backoff_interval, channel_clear,
                   e_status_reg, e_txbuf, e_air, e_iter, e_raised, e_fails, e_seq0,
                   e_sent0>>
    /\ UNCHANGED xe_vars

EBackoff_no_growth ==
    /\ e_pc = "backoff"
    /\ tx_sleep_period' = next_backoff_interval
    /\ next_backoff_interval' = next_backoff_interval
    /\ channel_clear' = 0
    /\ e_fails' = e_fails + 1
    /\ e_pc' = "sleep"
    /\ UNCHANGED <<e_tx_msg, e_status_reg, e_status, e_radio, e_txpend, e_txbuf, e_air,
                   e_iter, e_raised, e_seq0, e_sent0>>
    /\ UNCHANGED xe_vars

\* tx_sleep_period = next_backoff_interval; next_backoff_interval++;
\* channel_clear = 0; }
EBackoff ==
    /\ e_pc = "backoff"
    /\ tx_sleep_period' = next_backoff_interval
    /\ next_backoff_interval' = next_backoff_interval + 1
    /\ channel_clear' = 0
    /\ e_fails' = e_fails + 1
    /\ e_pc' = "sleep"
    /\ UNCHANGED <<e_tx_msg, e_status_reg, e_status, e_radio, e_txpend, e_txbuf, e_air,
                   e_iter, e_raised, e_seq0, e_sent0>>
    /\ UNCHANGED xe_vars

\* sprintf(...); printk(...); Sleep(tx_sleep_period);  the sleep of 100 ms or
\* more outlasts whatever the radio is doing; the next iteration begins
ESleep ==
    /\ e_pc = "sleep"
    /\ e_radio = "Idle"
    /\ e_iter < MaxCcaIters
    /\ e_iter' = e_iter + 1
    /\ e_seq0' = At(e_tx_msg, BLINK_FRAME_SN_IDX_01E)
    /\ e_sent0' = Len(e_air)
    /\ e_pc' = "write"
    /\ UNCHANGED <<e_tx_msg, tx_sleep_period, next_backoff_interval, channel_clear,
                   e_status_reg, e_status, e_radio, e_txpend, e_txbuf, e_air, e_raised,
                   e_fails>>
    /\ UNCHANGED xe_vars

\* radio: no preamble within the preamble detection timeout of 3 PACs; RXPTO
\* is latched, the receiver stops and a waiting transmission starts
HPreambleTimeout ==
    /\ e_radio = "Cca"
    /\ e_status' = e_status \cup {"RXPTO"}
    /\ e_raised' = [e_raised EXCEPT !["RXPTO"] = e_iter]
    /\ e_radio' = IF e_txpend THEN "Tx" ELSE "Idle"
    /\ e_txpend' = FALSE
    /\ UNCHANGED <<e_pc, e_tx_msg, tx_sleep_period, next_backoff_interval, channel_clear,
                   e_status_reg, e_txbuf, e_air, e_iter, e_fails, e_seq0, e_sent0>>
    /\ UNCHANGED xe_vars

\* radio: a preamble is detected; RXPRD is latched and the receiver goes on
\* to receive the frame
HPreambleDetected ==
    /\ e_radio = "Cca"
    /\ e_status' = e_status \cup {"RXPRD"}
    /\ e_raised' = [e_raised EXCEPT !["RXPRD"] = e_iter]
    /\ e_radio' = "Rx"
    /\ UNCHANGED <<e_pc, e_tx_msg, tx_sleep_period, next_backoff_interval, channel_clear,
                   e_status_reg, e_txpend, e_txbuf, e_air, e_iter, e_fails, e_seq0,
                   e_sent0>>
    /\ UNCHANGED xe_vars

\* radio: the reception that nobody switched off ends; a transmission that
\* was waiting for the receiver starts or is lost.  A frame on the air lasts
\* longer than the register accesses from the poll to dwt_forcetrxoff(), so
\* the reception ends only once the program is past them.
HRxEnds ==
    /\ e_radio = "Rx"
    /\ e_pc \in {"txwait", "sent", "sleep"}
    /\ \E go \in BOOLEAN : e_radio' = IF e_txpend /\ go THEN "Tx" ELSE "Idle"
    /\ e_txpend' = FALSE
    /\ UNCHANGED <<e_pc, e_tx_msg, tx_sleep_period, next_backoff_interval, channel_clear,
                   e_status_reg, e_status, e_txbuf, e_air, e_iter, e_raised, e_fails,
                   e_seq0, e_sent0>>
    /\ UNCHANGED xe_vars

\* radio: the frame in the transmit buffer has been sent; TXFRS is latched
HTxDone ==
    /\ e_radio = "Tx"
    /\ e_status' = e_status \cup {"TXFRS"}
    /\ e_raised' = [e_raised EXCEPT !["TXFRS"] = e_iter]
    /\ e_air' = Append(e_air, At(e_txbuf, BLINK_FRAME_SN_IDX_01E))
    /\ e_radio' = "Idle"
    /\ UNCHANGED <<e_pc, e_tx_msg, tx_sleep_period, next_backoff_interval, channel_clear,
                   e_status_reg, e_txpend, e_txbuf, e_iter, e_fails, e_seq0, e_sent0>>
    /\ UNCHANGED xe_vars

ENext ==
    \/ EWriteTxData \/ ERxEnable \/ EStartTx \/ EPoll \/ EClear \/ ETxWait \/ ESent
    \/ EForceTrxOff \/ EBackoff \/ ESleep
    \/ HPreambleTimeout \/ HPreambleDetected \/ HRxEnds \/ HTxDone

(***************************************************************************)
(* Specifications                                                          *)
(***************************************************************************)
Init == WInit /\ LInit /\ BInit /\ PInit /\ CInit /\ SInit /\ EInit

\* the waker alone
SpecWaker == Init /\ [][WNext]_vars

\* the listener, its radio and the frames on the air
SpecListener == Init /\ [][LNext]_vars

\* the start-up of the listener, and the timed-sleep transmitter
SpecBoot == Init /\ [][BNext]_vars

\* the waker and the listener on the air
SpecPair == Init /\ [][PNext]_vars

\* the countdown field from the waker to the listener
SpecCodec == Init /\ [][CNext]_vars

\* one board runs one program: the program that takes the first step is the
\* one that was flashed, and the others stay as they are at power-up
SoloNext ==
    \/ LInit /\ BInit /\ WNext
    \/ WInit /\ BInit /\ LNext
    \/ WInit /\ LInit /\ BNext

SpecSolo == Init /\ [][SoloNext]_vars

\* the SPI transport under the transactions of the programs
SpecSpi == Init /\ [][SNext]_vars

\* the transmitter with clear-channel assessment and its radio
SpecCca == Init /\ [][ENext]_vars

Next == WNext \/ LNext \/ BNext \/ PNext \/ CNext \/ SNext \/ ENext

Spec == Init /\ [][Next]_vars

(***************************************************************************)
(* Properties                                                              *)
(***************************************************************************)
\* a step of the interrupt handler: it clears the RX good frame event
IsrStep == "RXFCG" \in l_status /\ "RXFCG" \notin l_status'

\* the main loop is between the capture it observed and the dwt_entersleep()
\* that resumes low-power listening
Disposing ==
    l_pc \in {"cfg_cs", "decode", "check", "a_sleep", "a_delay", "a_wake", "a_write", "a_tx",
              "a_poll", "a_clear", "a_seq", "n_time", "n_sleep", "n_delay", "n_wake",
              "r_cfg", "r_lpl", "r_sleep"}

\* the waker is past the loop of the burst
BurstOver == w_pc \in {"rxenable", "rxpoll", "delay", "toggle"}

\* C1: in every wake burst the waker transmits exactly WUS_FRAME_NB frames, and
\* the k-th of them (k = 1, 2, ...) carries the countdown WUS_FRAME_NB - k: the
\* values are WUS_FRAME_NB - 1, ..., 1, 0 in that order, in the first burst and
\* in the later ones.
C1_BurstCountdown ==
    /\ w_sent <= WUS_FRAME_NB
    /\ w_sent > 0 => /\ Len(w_air) = WUS_FRAME_LEN
                     /\ ReadCountdown(w_air) = WUS_FRAME_NB - w_sent
    /\ BurstOver => w_sent = WUS_FRAME_NB

\* the second burst is complete: its last frame, with countdown 0, is on the air
C1_Witness ==
    /\ w_burst = 1
    /\ w_pc = "rxenable"
    /\ w_sent = WUS_FRAME_NB
    /\ ReadCountdown(w_air) = 0

\* C2: every good wake frame for this node ('XR') that the radio receives yields
\* exactly one transmitted interaction frame: whenever the listener is back in
\* its wait with nothing pending, it has transmitted as many interaction frames
\* as wake frames for it were received, and the next one carries that number
\* mod 256 as its sequence number.
C2_OneInteractionPerWake ==
    (l_pc = "wait" /\ rx_frame = 0 /\ "RXFCG" \notin l_status /\ l_radio # "Rx")
        => /\ h_txcount = h_rx_me
           /\ At(interaction_msg, DATA_FRAME_SEQ_NB_IDX) = h_rx_me % 256

\* C3: while the main loop disposes of a captured wake frame that is not for
\* this node it never starts a transmission, and when it goes back to low-power
\* listening it has slept at least the time to the end of the wake-up sequence
\* plus INTERACTION_PERIOD_MAX_TIME_MS.
C3_NotAddressedSleepsNoTx ==
    /\ (h_cur # <<>> /\ ~IsForMe(h_cur)) =>
          /\ h_tx = 0
          /\ l_pc \in {"r_cfg", "r_lpl", "r_sleep", "r_clear"} =>
                h_slept >= EndTimeMs(ReadCountdown(h_cur)) + INTERACTION_PERIOD_MAX_TIME_MS
    /\ l_radio = "Tx" => (h_cur # <<>> /\ IsForMe(h_cur))

\* a wake frame for another node, captured at the start of a burst, has been
\* disposed of
C3_Witness ==
    /\ l_pc = "r_clear"
    /\ h_cur \in WakeFramesForOther
    /\ ReadCountdown(h_cur) = WUS_FRAME_NB - 1
    /\ h_slept = 1574

\* C4: the listener holds at most one undisposed captured frame: as long as the
\* main loop has not cleared rx_frame for the frame it is disposing of, that
\* frame is the one that set the flag and the one in rx_buffer; a later frame
\* neither replaces it nor sets the flag a second time.
C4_SingleSlot ==
    (rx_frame = 1 /\ h_cur # <<>>) => (h_cap = h_cur /\ rx_buffer = h_cur)

\* C5: the interrupt handler never runs between the dwt_entersleep() that
\* resumes low-power listening and the main loop's rx_frame = 0.
C5_ClearBeforeRearm == [][IsrStep => l_pc # "r_clear"]_vars

\* C6: the listener is never left with the radio awake and inert, no event
\* pending, and the main loop waiting for rx_frame.
C6_NeverInert ==
    ~(l_pc = "wait" /\ rx_frame = 0 /\ l_radio = "Idle" /\ "RXFCG" \notin l_status)

\* C7: from the acceptance of a frame until the main loop has read its
\* countdown and destination, rx_buffer holds that frame and the interrupt
\* handler cannot run (the radio is inert, no event is pending); the countdown
\* decoded and the branch taken are those of the frame that set the flag.
C7_BufferHandedOff ==
    /\ (rx_frame = 1 /\ l_pc \in {"wait", "cfg_cs", "decode", "check"}) =>
          /\ rx_buffer = h_cap
          /\ l_radio = "Idle"
          /\ "RXFCG" \notin l_status
    /\ l_pc = "check" => wus_end_frame_nb = ReadCountdown(h_cap)
    /\ l_pc \in {"a_sleep", "a_delay", "a_wake", "a_write", "a_tx"} => IsForMe(h_cur)
    /\ l_pc \in {"n_time", "n_sleep", "n_delay", "n_wake"} => ~IsForMe(h_cur)

\* a wake frame for another node is being decoded after an earlier frame was
\* copied into rx_buffer and rejected
C7_Witness ==
    /\ l_pc = "check"
    /\ rx_frame = 1
    /\ non_wus_frame_rx_nb > 0
    /\ h_cap \in WakeFramesForOther
    /\ wus_end_frame_nb = 42

\* C8: once low-power listening has started, the main loop makes its radio
\* calls only with rx_frame set, and while it is in the part of the loop that
\* makes them no receive event is pending and the radio is neither listening
\* nor receiving, so the interrupt handler cannot run there.
C8_RadioExclusive ==
    Disposing => /\ rx_frame = 1
                 /\ "RXFCG" \notin l_status
                 /\ l_radio \in {"Idle", "CsSleep", "Tx"}

\* the main loop is about to start the transmission, the radio awake and idle
C8_Witness ==
    /\ l_pc = "a_tx"
    /\ l_radio = "Idle"
    /\ rx_frame = 1

\* C9: for a received frame whose length is not WUS_FRAME_LEN the interrupt
\* handler leaves rx_buffer and rx_frame as they are and accepts nothing; the
\* main loop only ever wakes for, and transmits after, a frame of that length.
C9_WrongLengthIgnored ==
    /\ [][(IsrStep /\ Len(l_hwrx) # WUS_FRAME_LEN) =>
             (rx_buffer' = rx_buffer /\ rx_frame' = rx_frame /\ h_cap' = h_cap)]_vars
    /\ [](h_cap # <<>> => Len(h_cap) = WUS_FRAME_LEN)
    /\ [](h_cur # <<>> => Len(h_cur) = WUS_FRAME_LEN)

\* the handler has rejected a 15-byte frame that carries the wake signature
\* and this node's address, and the radio is back in its long sleep
C9_Witness ==
    /\ Len(h_isr) = WUS_FRAME_LEN + 1
    /\ IsWusSignature(h_isr) /\ IsForMe(h_isr)
    /\ rx_frame = 0
    /\ l_radio = "DeepSleep"
    /\ l_pc = "wait"

\* C10: every run of the interrupt handler for a frame that is not a wake
\* frame leaves rx_frame clear, re-enables low-power listening, puts the radio
\* back to sleep and adds one to non_wus_frame_rx_nb.
C10_RejectResumes ==
    [][(IsrStep /\ ~IsWakeFrame(l_hwrx)) =>
          /\ rx_frame' = 0
          /\ l_lpl'
          /\ l_radio' = "DeepSleep"
          /\ non_wus_frame_rx_nb' = non_wus_frame_rx_nb + 1]_vars

\* C11: a run of the interrupt handler that accepts a wake frame sets rx_frame
\* and leaves the radio awake and idle with low-power listening off; from then
\* until the main loop's dwt_entersleep() that resumes low-power listening the
\* radio neither listens nor receives and no receive event is pending, and the
\* handler never runs while the main loop is between its two
\* dwt_configuresleep() calls or in the middle of either reconfiguration.
C11_AcceptKeepsInert ==
    /\ [][(IsrStep /\ IsWakeFrame(l_hwrx)) =>
             (rx_frame' = 1 /\ ~l_lpl' /\ l_radio' = "Idle" /\ l_status' = l_status \ {"RXFCG"})]_vars
    /\ []((rx_frame = 1 /\ l_pc # "r_clear") =>
             (l_radio \in {"Idle", "CsSleep", "Tx"} /\ "RXFCG" \notin l_status))
    /\ [][IsrStep => ~Disposing]_vars

\* a wake frame for this node was accepted and answered, and the main loop is
\* about to set the sleep mode back to sleep-counter wake with RX on wake
C11_Witness ==
    /\ l_pc = "r_cfg"
    /\ rx_frame = 1
    /\ h_cur \in WakeFramesForMe
    /\ h_tx = 1
    /\ l_slpcfg = SLEEP_CFG_CS
    /\ l_radio = "Idle"
    /\ ~l_lpl

\* the durations asked for, in milliseconds, that the conversion is examined at
WantedMs == {0, 1, 409, 410, SLEEP_TIME_MS, LONG_SLEEP_TIME_MS, 5000, 32767, 400000, 600000}

\* floor(wanted_ms * osc_freq / 1000) in unbounded integers
ExactMsCounts(wanted_ms, osc_freq) ==
    wanted_ms * (osc_freq \div 1000) + (wanted_ms * (osc_freq % 1000)) \div 1000

\* wanted_ms * osc_freq < 2^32, for 0 < osc_freq < 2^15
NoWrap32(wanted_ms, osc_freq) ==
    wanted_ms <= (65535 \div osc_freq) * 65536 + ((65535 % osc_freq) * 65536 + 65535) \div osc_freq

\* wanted_ms * osc_freq < 2^31 for every uint16 osc_freq
NoOverflowInt(wanted_ms) == wanted_ms <= 32767

SleepCounterPrograms == {"EX_08A", "EX_01D"}

\* C13: dwt_calibratesleepcnt() and dwt_configuresleepcnt() are each called at
\* most once, with the SPI at the slow rate, the radio awake and successfully
\* initialised; the sleep counter is configured only after the calibration; and
\* the radio has not been put to sleep before both are done, so neither runs
\* while it is asleep.
C13_SleepPlanAtCrystalSpeed ==
    /\ Len(b_calibrated) <= 1
    /\ Len(b_configured) <= Len(b_calibrated)
    /\ \A i \in 1..Len(b_calibrated) : b_calibrated[i] = <<"slow", "Awake", TRUE>>
    /\ \A i \in 1..Len(b_configured) : b_configured[i] = <<"slow", "Awake", TRUE>>
    /\ b_spi = "fast" /\ b_calib # 0 => Len(b_configured) = 1
    /\ b_slept /\ b_prog \in SleepCounterPrograms =>
           (Len(b_calibrated) = 1 /\ Len(b_configured) = 1 /\ b_spi = "fast")
    /\ b_chip \in {"Asleep", "Tx"} /\ b_prog # "off" /\ b_initialised => b_slept \/ b_chip = "Tx"

\* the listener has finished its start-up: calibrated and configured once at the
\* slow rate, back at the fast rate, the radio in its first long sleep
C13_Witness ==
    /\ b_prog = "EX_08A"
    /\ b_pc = "loop"
    /\ b_chip = "Asleep"
    /\ b_slept
    /\ b_spi = "fast"
    /\ b_calibrated = << <<"slow", "Awake", TRUE>> >>
    /\ b_configured = << <<"slow", "Awake", TRUE>> >>
    /\ b_slpcnt = sleep_cnt

\* C15: the wake-up sequence, WUS_FRAME_NB frames of WUS_FRAME_TIME_US, lasts
\* longer than one period of the listener's duty cycle, that is the long sleep
\* the radio makes of the configured sleep count, two RX ON phases and one
\* snooze; the long sleep is at most LONG_SLEEP_TIME_MS.
C15_BurstExceedsDutyCycle ==
    /\ WUS_FRAME_NB * WUS_FRAME_TIME_US > LONG_SLEEP_TIME_MS * 1000 + 2 * SniffUs + SnoozeUs
    /\ (b_prog = "EX_08A" /\ b_pc \in {"cfgcnt", "fast2", "cfgsleep", "snooze", "pdt", "callbacks",
                                        "interrupt", "lpl", "entersleep", "loop"}) =>
          /\ sleep_cnt > 0
          /\ LongSleepUs(sleep_cnt, b_calib) <= LONG_SLEEP_TIME_MS * 1000
          /\ WUS_FRAME_NB * WUS_FRAME_TIME_US >
                LongSleepUs(sleep_cnt, b_calib) + 2 * SniffUs + SnoozeUs

\* the listener sleeps at an oscillator frequency for which the long sleep is
\* within a millisecond of LONG_SLEEP_TIME_MS
C15_Witness ==
    /\ b_prog = "EX_08A"
    /\ b_pc = "loop"
    /\ b_slpcnt = 4
    /\ LongSleepUs(b_slpcnt, b_calib) > (LONG_SLEEP_TIME_MS - 1) * 1000
    /\ LongSleepUs(b_slpcnt, b_calib) + 2 * SniffUs + SnoozeUs < WUS_FRAME_NB * WUS_FRAME_TIME_US

\* C17: however the receive window ends (frame, timeout or error) the waker
\* goes on to the delay with the receive events cleared and the receiver off;
\* it has then called dwt_rxenable() exactly once in the cycle and transmitted
\* exactly the WUS_FRAME_NB frames of the burst, and it starts the next burst
\* only with TX_DELAY_MS of delay behind it.
C17_SilentFailedRendezvous ==
    /\ [][(w_pc = "rxpoll" /\ w_pc' # "rxpoll") =>
             (w_pc' = "delay" /\ w_status' \cap {"RXFCG", "RXTO", "RXERR"} = {})]_vars
    /\ [](w_rxen <= 1)
    /\ [](w_pc \in {"delay", "toggle"} =>
             /\ w_status \cap {"RXFCG", "RXTO", "RXERR"} = {}
             /\ ~w_rxon
             /\ w_rxen = 1
             /\ w_sent = WUS_FRAME_NB
             /\ w_inflight = 0
             /\ w_outcome \in {"frame", "timeout", "error"})
    /\ []((w_pc = "burst_init" /\ w_burst > 0) => w_delayed = TX_DELAY_MS)
    /\ [][(w_pc # "burst_init" /\ w_pc' = "burst_init") => w_delayed = TX_DELAY_MS]_vars

\* the receive window of the first cycle ended in a timeout and the waker is
\* about to start the second burst
C17_Witness ==
    /\ w_pc = "burst_init"
    /\ w_burst = 1
    /\ w_outcome = "timeout"
    /\ w_rxen = 1
    /\ w_delayed = TX_DELAY_MS
    /\ w_status = {}

\* C18: the waker starts a transmission only when every frame it has started
\* in the burst has been confirmed by a TX frame sent event that it has seen
\* and cleared; never is more than one transmission in flight; every event
\* cleared stands for one frame; and the receiver is on only after the event of
\* the last frame, the one with countdown 0, has been cleared.
C18_OneTransmissionInFlight ==
    /\ w_inflight <= 1
    /\ w_pc = "starttx" => (w_inflight = 0 /\ "TXFRS" \notin w_status /\ w_confirmed = w_sent)
    /\ w_sent = w_confirmed + w_inflight + (IF "TXFRS" \in w_status THEN 1 ELSE 0)
    /\ (w_rxon \/ w_pc = "rxpoll") =>
          /\ w_confirmed = WUS_FRAME_NB
          /\ w_inflight = 0
          /\ "TXFRS" \notin w_status
          /\ ReadCountdown(w_air) = 0

\* the last frame of a burst is in flight, all the frames before it confirmed
C18_Witness ==
    /\ w_pc = "txpoll"
    /\ w_inflight = 1
    /\ w_sent = WUS_FRAME_NB
    /\ w_confirmed = WUS_FRAME_NB - 1
    /\ ReadCountdown(w_air) = 0

\* C19: the frame number k (k = 0, 1, ...) that the waker transmits since its
\* start carries the sequence number k mod 256, in the first burst and in the
\* later ones; wus_msg holds the number of the next frame except between
\* dwt_starttx() and the increment.
C19_SequenceNumberRuns ==
    /\ w_total > 0 => At(w_air, DATA_FRAME_SEQ_NB_IDX) = (w_total - 1) % 256
    /\ At(wus_msg, DATA_FRAME_SEQ_NB_IDX) =
          (IF w_pc \in {"txpoll", "txclear", "seq"} THEN w_total - 1 ELSE w_total) % 256

\* the first frame of the second burst is on the air: it carries 1350 mod 256
C19_Witness ==
    /\ w_burst = 1
    /\ w_sent = 1
    /\ w_total = WUS_FRAME_NB + 1
    /\ At(w_air, DATA_FRAME_SEQ_NB_IDX) = 70
    /\ ReadCountdown(w_air) = WUS_FRAME_NB - 1

FramesToSend(t) ==
    WUS_FRAME_NB - ((t - p_T0 + WUS_FRAME_TIME_US - 1) \div WUS_FRAME_TIME_US)

\* the waker has sent the whole of the current burst
PairBurstOver == p_w \in {"rxwin", "delay"}

\* C14: whatever the phase offset between the waker and the listener, when a
\* burst of 1350 frames of 1130 us is over the listener has captured a frame of
\* it, and the countdown it decoded is within one frame of the number of frames
\* that were still to be sent when it captured the frame
C14_CaptureForEveryPhase ==
    PairBurstOver =>
        /\ p_ncap >= 1
        /\ p_cap.burst = p_wb
        /\ ReadCountdown(p_cap.frame) - FramesToSend(p_cap.time) \in {-1, 0, 1}

\* with the configurations of the source the listener captures no frame of the
\* waker, and the waker receives no frame of the listener
PairDeafAsConfigured ==
    p_cfg = config_08B => (p_ncap = 0 /\ p_wout # "frame")

\* with the listener's configuration in the waker every burst is captured
PairCaptureWithSameConfig ==
    p_cfg = config_08A => C14_CaptureForEveryPhase

\* C16: a burst addressed to the listener ends in the rendezvous: the listener
\* sends its interaction frame after the waker has sent the last frame and
\* enabled its receiver and before the response window expires, and the waker
\* ends the cycle with a received frame and not with a timeout
C16_EndToEndRendezvous ==
    (p_w = "delay" /\ p_wdest = CH_X) =>
        /\ p_wout = "frame"
        /\ p_tx # <<>>
        /\ p_rxen <= p_tx[1]
        /\ p_tx[2] <= p_rxen + RxWindowUs

\* with the listener's configuration in the waker every burst addressed to the
\* listener ends in the rendezvous
PairRendezvousWithSameConfig ==
    p_cfg = config_08A => C16_EndToEndRendezvous

\* C21: when dwt_initialise() has reported an error the program is in its
\* while (1) { } and stays there: no later step configures, calibrates, puts to
\* sleep, registers callbacks, transmits, receives or initialises again; this
\* holds for the listener and for the waker
C21_InitFailureIsFatal ==
    /\ [](b_initerr => b_pc = "halt" /\ ~b_initialised)
    /\ [][b_initerr => UNCHANGED b_vars]_vars

\* the initialisation of the listener or of the waker has failed
C21_Witness == b_initerr /\ b_prog \in {"EX_08A", "EX_08B"}

\* C22: for every value of 0..65535 the countdown the listener decodes from
\* bytes 10 (low) and 11 (high) of the received frame is the value the waker
\* wrote into the frame
C22_CountdownRoundTrip ==
    c_pc \in {"decoded", "timed"} =>
        /\ c_nb = c_v
        /\ At(c_rx, DATA_FRAME_WUS_CNTDWN_IDX) = c_v % 256
        /\ At(c_rx, DATA_FRAME_WUS_CNTDWN_IDX + 1) = c_v \div 256

\* the round trip of a value with two different bytes
C22_Witness == c_pc = "decoded" /\ c_v = 42 * 256 + 7 /\ c_nb = c_v

INT32_MAX == 2147483647

\* C23: for every decoded countdown c of 0..65535 the wait is
\* floor(c * 1130 / 1000) and the product fits 32 bits; the wait is 0 for
\* c = 0 and does not decrease when c grows
C23_RemainingMs ==
    c_pc = "timed" =>
        /\ c_nb \in CountdownValues
        /\ c_nb * WUS_FRAME_TIME_US <= INT32_MAX
        /\ c_ms = (c_nb * WUS_FRAME_TIME_US) \div 1000
        /\ (c_nb = 0 => c_ms = 0)
        /\ (c_nb > 0 => EndTimeMs(c_nb - 1) <= c_ms)

\* the wait of the largest countdown
C23_Witness == c_pc = "timed" /\ c_nb = 65535 /\ c_ms = 74054

\* the main loop has compared the destination address of the frame it is
\* disposing of with 'X', 'R'
DestinationCompared == l_pc \notin {"wait", "cfg_cs", "decode", "check"}

\* C24: the sleep and wake configuration of the radio is not changed for a
\* frame before the classification of that frame, the comparison of its
\* destination address with the local address included, has been made
C24_DecisionBeforeReconfigure ==
    [][(l_slpcfg' # l_slpcfg) => DestinationCompared]_vars

\* the four phases of low-power listening, and the phase that follows each
DutyCycle == {"DeepSleep", "Sniff1", "Snooze", "Sniff2"}

NextPhase(phase) ==
    CASE phase = "DeepSleep" -> "Sniff1"
      [] phase = "Sniff1" -> "Snooze"
      [] phase = "Snooze" -> "Sniff2"
      [] phase = "Sniff2" -> "DeepSleep"

\* C25: in low-power listening, as long as no preamble is detected, the radio
\* goes from the long sleep to the first reception phase, to the snooze, to the
\* second reception phase and back to the long sleep, in that order; each phase
\* can end, and the end of a phase changes neither the position of the main
\* loop nor rx_frame
C25_DutyCycleOrder ==
    /\ [][(l_lpl /\ l_radio \in DutyCycle /\ l_radio' \notin {l_radio, "Rx"})
            => (l_radio' = NextPhase(l_radio) /\ UNCHANGED <<l_pc, rx_frame>>)]_vars
    /\ [](l_lpl /\ l_radio \in DutyCycle
            => ENABLED (RSleepCounter \/ RSniff1Timeout \/ RSnoozeEnd \/ RSniff2Timeout))

\* the radio is in the second reception phase of a cycle in which nothing was
\* detected, and no frame has been received yet
C25_Witness ==
    /\ l_lpl
    /\ l_radio = "Sniff2"
    /\ l_rxing = <<>>
    /\ rx_frame = 0
    /\ l_pc = "wait"

\* the duty cycle whose second reception phase ends at time t began its first
\* reception phase after the burst had begun, and the burst is not over at t
CycleInBurst(t) ==
    /\ p_w = "burst"
    /\ t - (SniffUs + SnoozeUs + SniffUs) >= p_T0
    /\ t <= p_T0 + BurstUs

\* C26: a duty cycle that overlaps the burst does not miss it in both reception
\* phases: when the first phase falls into the SFD, PHR, data or inter-frame
\* part of a frame and detects nothing, the second one, a snooze later, falls
\* into a preamble and detects it
C26_TwoSniffCoverage ==
    [][(p_l = "Sniff2" /\ CycleInBurst(p_lt)) => p_l' # "DeepSleep"]_vars

\* with the listener's configuration in the waker no duty cycle inside a burst
\* misses it in both reception phases
PairTwoSniffWithSameConfig ==
    [][(p_cfg = config_08A /\ p_l = "Sniff2" /\ CycleInBurst(p_lt)) => p_l' # "DeepSleep"]_vars

\* with the listener's configuration in the waker a frame is received whose
\* preamble the second reception phase detected
PairSecondPhaseHit == p_cfg = config_08A /\ p_l = "Rx" /\ p_hit = 2

\* the waker's main loop handles a good response frame
WReadsResponse == w_pc = "rxpoll" /\ "RXFCG" \in w_status /\ w_pc' = "delay"

ListenerRejectedMaxLength ==
    /\ Len(h_isr) = RX_BUF_LEN
    /\ IsWusSignature(h_isr) /\ IsForMe(h_isr)
    /\ rx_frame = 0
    /\ l_pc = "wait"

\* the time at which the waker's receive window after the current burst closes
InteractionOverUs == p_T0 + BurstUs + RxWindowUs

DestAddr(f) == <<At(f, DATA_FRAME_DEST_ADDR_IDX), At(f, DATA_FRAME_DEST_ADDR_IDX + 1)>>

\* the waker puts a frame on the air
WEmits == w_total' # w_total

\* C29: every frame the waker puts on the air has WUS_FRAME_LEN bytes and passes
\* the signature test of the listener's interrupt handler; a frame that is not
\* the first of its burst has the destination address of the frame before it;
\* and the listener's destination test finds the frame addressed to this node
\* exactly when the burst has an even number, counted from 0.
C29_WireFormatAgreement ==
    [][WEmits =>
         /\ Len(w_air') = WUS_FRAME_LEN
         /\ IsWakeFrame(w_air')
         /\ w_sent > 0 => DestAddr(w_air') = DestAddr(w_air)
         /\ IsForMe(w_air') <=> w_burst % 2 = 0]_vars

\* the waker is in its second burst, whose frames are for another node
C29_Witness ==
    /\ w_burst = 1
    /\ w_sent >= 2
    /\ IsWakeFrame(w_air)
    /\ ~IsForMe(w_air)

\* in the timed model the listener's classification of a captured frame follows
\* the number of the burst and it transmits in bursts of even number only
PairAnswersEvenBursts ==
    /\ p_ncap = 1 => (IsForMe(p_cap.frame) <=> p_cap.burst % 2 = 0)
    /\ p_tx # <<>> => p_wb % 2 = 0

\* the listener has captured a frame of the second burst, which is for another
\* node
PairHearsSecondBurst == p_ncap = 1 /\ p_cap.burst = 1 /\ ~IsForMe(p_cap.frame)

\* the listener's main loop executes a statement that reads or writes the
\* radio: a register, the transmit buffer or a command
MainRadioAccess ==
    /\ l_pc \in {"cfg_cs", "a_sleep", "a_write", "a_tx", "a_poll", "a_clear", "n_sleep",
                 "r_cfg", "r_lpl", "r_sleep"}
    /\ l_pc' # l_pc

\* the listener's radio is in one of its sleep states
RadioAsleep == l_radio \in {"DeepSleep", "CsSleep", "Snooze"}

\* C30: the main loop makes no radio access while the radio is asleep.  In the
\* listener every statement of the disposition that accesses the radio finds it
\* awake, after dwt_entersleep() the next statements are the host delay and the
\* chip-select wake-up, and after the dwt_entersleep() that resumes low-power
\* listening the loop only clears and polls rx_frame until the interrupt handler
\* has set it.  In the auto-sleep transmitter no driver call finds the radio
\* asleep, and once the radio sleeps after a transmission the loop's next
\* statements are the delay and the chip-select wake-up.
C30_NoAccessWhileAsleep ==
    /\ [][MainRadioAccess => ~RadioAsleep]_vars
    /\ [][(l_pc \in {"a_sleep", "n_sleep"} /\ l_pc' # l_pc) =>
             (l_radio' = "CsSleep" /\ l_pc' \in {"a_delay", "n_delay"})]_vars
    /\ [][(l_pc \in {"a_delay", "n_delay"} /\ l_pc' # l_pc) => l_pc' \in {"a_wake", "n_wake"}]_vars
    /\ [][(l_pc \in {"a_wake", "n_wake"} /\ l_pc' # l_pc) => l_radio' = "Idle"]_vars
    /\ [][(l_pc = "r_sleep" /\ l_pc' # l_pc) => l_pc' = "r_clear"]_vars
    /\ [][(l_pc = "r_clear" /\ l_pc' # l_pc) => l_pc' = "wait"]_vars
    /\ [][(l_pc = "wait" /\ l_pc' # l_pc) => (rx_frame # 0 /\ h_cap # <<>>)]_vars
    /\ [](b_prog = "EX_01C" => ~b_asleep_access)
    /\ [][(b_prog = "EX_01C" /\ b_chip = "Asleep" /\ b_slept /\ b_pc' # b_pc) =>
             b_pc \in {"delay", "cswake2"}]_vars

\* the auto-sleep transmitter has sent a frame, its radio has slept and been
\* woken by chip select, and the loop is about to write the next frame
C30_Witness ==
    /\ b_prog = "EX_01C"
    /\ b_pc = "write"
    /\ b_slept
    /\ b_chip = "Awake"
    /\ ~b_asleep_access

\* the listener has slept through the rest of a burst addressed to it, has
\* woken its radio by chip select and is about to write its interaction frame
ListenerWokenForInteraction ==
    /\ l_pc = "a_write"
    /\ l_radio = "Idle"
    /\ h_cur # <<>> /\ IsForMe(h_cur)

\* the parameters two nodes must share to hear each other
SameRadioConfiguration(a, b) ==
    /\ a.chan = b.chan
    /\ a.prf = b.prf
    /\ a.txPreambLength = b.txPreambLength
    /\ a.txCode = b.rxCode /\ b.txCode = a.rxCode
    /\ a.nsSFD = b.nsSFD
    /\ a.dataRate = b.dataRate
    /\ a.phrMode = b.phrMode

\* C31: once both nodes are switched on, the configuration the waker has given
\* its radio and the configuration of the listener agree in channel, pulse
\* repetition frequency, preamble length, preamble code, SFD type, data rate
\* and PHY header mode, and the listener can receive the waker's frames.
C31_SameRadioConfiguration ==
    p_w # "off" => (SameRadioConfiguration(p_cfg, config_08A) /\ Receivable(p_cfg, config_08A))

\* the waker as coded has sent a whole burst for this node, the listener has
\* gone through duty cycles inside it and has captured nothing
PairBurstUnheard ==
    /\ p_cfg = config_08B
    /\ p_w = "rxwin"
    /\ p_wdest = CH_X
    /\ p_ncap = 0
    /\ p_l = "DeepSleep"
    /\ p_now > LONG_SLEEP_TIME_MS * 1000

\* C32: no transaction is longer than the transfer buffers: while a call is in
\* progress headerLength plus the body or read length is at most SPI_BUF_LEN,
\* and nothing has been written past the end of tx_buf or of rx_buf.
C32_TransactionsFitBuffers ==
    /\ s_call.hdr + s_call.len <= SPI_BUF_LEN
    /\ s_tx_end <= SPI_BUF_LEN
    /\ s_rx_end <= SPI_BUF_LEN
    /\ s_len <= SPI_BUF_LEN
    /\ s_pc # "fault"

\* every transaction other than the dummy read of the chip-select wake-up fits
SpiFitsWithoutWakeup ==
    [][(s_call.by # "dwt_spicswakeup" /\ s_call'.by # "dwt_spicswakeup") =>
          /\ s_call'.hdr + s_call'.len <= SPI_BUF_LEN
          /\ s_tx_end' = s_tx_end /\ s_rx_end' = s_rx_end
          /\ s_pc' # "fault"]_vars

\* a read of a whole standard frame has been clocked through the buffers
SpiLongestFrameRead ==
    /\ s_pc = "return"
    /\ s_call.by = "dwt_readrxdata"
    /\ s_len = 3 + RX_BUF_LEN

\* the dummy read has run to its end with both buffers overrun
SpiWakeupOverrun ==
    /\ s_pc = "return"
    /\ s_call.by = "dwt_spicswakeup"
    /\ s_tx_end > SPI_BUF_LEN
    /\ s_rx_end > SPI_BUF_LEN

\* C33: in the timed-sleep transmitter lp_osc_freq and sleep_cnt hold their
\* values without wrapping, the sleep count is at least 1 and the sleep the
\* radio makes of it is no longer than SLEEP_TIME_MS; the radio is awake when
\* the loop writes the frame data and when it starts the transmission, and no
\* driver call of the program finds the radio asleep.
C33_AwakeBeforeEveryTransmission ==
    /\ [](b_prog = "EX_01D" /\ b_configured # <<>> =>
            /\ lp_osc_freq = (XTAL_FREQ_HZ \div 2) \div b_calib
            /\ sleep_cnt = (SLEEP_TIME_MS * lp_osc_freq) \div 4096000
            /\ b_slpcnt = sleep_cnt
            /\ b_slpcnt >= 1
            /\ LongSleepUs(b_slpcnt, b_calib) <= SLEEP_TIME_MS * 1000
            /\ ~SleepOutlastsDelay)
    /\ [][(b_prog = "EX_01D" /\ b_pc \in {"write", "starttx"} /\ b_pc' # b_pc) =>
             b_chip = "Awake"]_vars
    /\ [](b_prog = "EX_01D" => ~b_asleep_access)

\* the timed-sleep transmitter has sent its second frame: the radio slept after
\* the first, the sleep counter woke it and the transmission has started
C33_Witness ==
    /\ b_prog = "EX_01D"
    /\ b_pc = "delay"
    /\ b_chip = "Tx"
    /\ b_slept
    /\ At(tx_msg, BLINK_FRAME_SN_IDX) = 1
    /\ ~b_asleep_access

\* the sequence number in tx_msg of the transmitter with clear-channel assessment
CcaSeq == At(e_tx_msg, BLINK_FRAME_SN_IDX_01E)

\* the iteration ends: Sleep(tx_sleep_period) returns
CcaIterationEnds == e_pc = "sleep" /\ e_pc' = "write"

\* C34: a frame is sent only in an iteration whose assessment ended with a
\* preamble detection timeout; an iteration in which a preamble was detected
\* ends with the transmission cancelled, no frame sent and the sequence number
\* as it was; and the sequence number moves by one for each frame sent, so that
\* at the end of every iteration it equals the number of frames sent mod 256.
C34_FrameOnlyWhenChannelClear ==
    [][/\ Len(e_air') # Len(e_air) => e_raised["RXPTO"] = e_iter
       /\ (CcaIterationEnds /\ e_raised["RXPRD"] = e_iter)
             => (~e_txpend /\ Len(e_air) = e_sent0 /\ CcaSeq = e_seq0)
       /\ CcaIterationEnds => CcaSeq = U8(Len(e_air))]_vars

\* a preamble is detected in an iteration that follows a sent frame, and the
\* iteration ends with the sequence number moved on
CcaBusyIterationCounted ==
    /\ e_pc = "sleep"
    /\ e_iter > 1
    /\ e_raised["RXPRD"] = e_iter
    /\ CcaSeq # e_seq0

\* C35: after a sent frame the delay is TX_DELAY_MS and the back-off interval
\* is INITIAL_BACKOFF_PERIOD again; after the k-th consecutive iteration that
\* backed off the delay is 400 + (k - 1) ms; next_backoff_interval is never
\* below 400 and grows by exactly one with each iteration that backs off.
C35_BackoffArithmetic ==
    /\ [](/\ next_backoff_interval >= INITIAL_BACKOFF_PERIOD
          /\ (e_pc = "sleep" /\ channel_clear = 1)
                => (/\ tx_sleep_period = TX_DELAY_MS_01E
                    /\ next_backoff_interval = INITIAL_BACKOFF_PERIOD)
          /\ (e_pc = "sleep" /\ Len(e_air) > e_sent0)
                => (/\ tx_sleep_period = TX_DELAY_MS_01E
                    /\ next_backoff_interval = INITIAL_BACKOFF_PERIOD)
          /\ (e_pc = "sleep" /\ channel_clear = 0)
                => (/\ e_fails >= 1
                    /\ tx_sleep_period = INITIAL_BACKOFF_PERIOD + (e_fails - 1)
                    /\ next_backoff_interval = INITIAL_BACKOFF_PERIOD + e_fails))
    /\ [][/\ (e_pc = "backoff" /\ e_pc' = "sleep")
                => next_backoff_interval' = next_backoff_interval + 1
          /\ (e_pc = "sent" /\ e_pc' = "sleep")
                => (/\ tx_sleep_period' = TX_DELAY_MS_01E
                    /\ next_backoff_interval' = INITIAL_BACKOFF_PERIOD)]_vars

\* the second consecutive iteration that backed off is about to sleep
C35_Witness ==
    /\ e_pc = "sleep"
    /\ channel_clear = 0
    /\ e_fails = 2
    /\ tx_sleep_period = INITIAL_BACKOFF_PERIOD + 1

\* a frame is sent after two iterations that backed off
CcaSentAfterBackoff ==
    /\ e_pc = "sleep"
    /\ channel_clear = 1
    /\ e_iter = 3
    /\ Len(e_air) = 1
    /\ tx_sleep_period = TX_DELAY_MS_01E

\* C36: the events that decide an iteration were raised in that iteration: the
\* RXPRD or RXPTO that ends the poll and the TXFRS that ends the wait for the
\* transmission are not left over from an earlier iteration, and the sequence
\* number moves only once the frame of the iteration has been sent.
C36_EventsOfThisIteration ==
    [][/\ (e_pc = "poll" /\ e_pc' = "branch")
             => \A b \in e_status \cap {"RXPRD", "RXPTO"} : e_raised[b] = e_iter
       /\ (e_pc = "txwait" /\ e_pc' = "sent") => e_raised["TXFRS"] = e_iter
       /\ CcaSeq' # CcaSeq => Len(e_air) > e_sent0]_vars

\* the sequence number has moved on while the frame of the iteration is
\* still waiting for the receiver
CcaCountedBeforeSent ==
    /\ e_pc = "sleep"
    /\ channel_clear = 1
    /\ e_radio = "Cca"
    /\ e_txpend
    /\ Len(e_air) = e_sent0
    /\ CcaSeq # e_seq0
====
